---- MODULE Spec2Model ----
(***************************************************************************)
(* State-machine model of the NIF importer/exporter core of nif-blender:   *)
(* NifImport.import_mesh (vertex map, polygons, loops, UV layers), the     *)
(* armature marking of armaturesys/armature_import.py, the name table of   *)
(* NifImport.import_name, NifImport.is_grouping_node, NifImport.execute    *)
(* and AnimationHelper.export_keyframes.                                   *)
(*                                                                         *)
(* Python lists are modelled as sequences; a Python index i is the         *)
(* sequence position i + 1.  Floating-point coordinates are modelled as    *)
(* exact fixed-point integers (a coordinate c stands for c / CoordDenom),  *)
(* so int(x * RESOLUTION) is an exact truncating division.                 *)
(***************************************************************************)
EXTENDS Integers, Sequences, FiniteSets, TLC

VARIABLES
    combine_vertices,   \* self.properties.combine_vertices
    b_obj,              \* the Blender object import_mesh works on ("None" before it exists)
    b_mesh,             \* b_obj.data: vertices, polygons, loops, UV layers
    mesh_pc,            \* where the caller of import_mesh stands
    call,               \* arguments, locals (v_map, f_map, ...) and outcome of the last import_mesh
    n_tree,             \* the NIF block tree of the root being imported: kind, children, name, skin
    n_parent,           \* the _parent attribute of every block (None until set_parents)
    skeleton,           \* self.properties.skeleton
    combine_shapes,     \* self.properties.combine_shapes
    IMPORT_EXTRANODES,  \* self.IMPORT_EXTRANODES
    data_file,          \* self.data.version and the base name of self.properties.filepath
    selected_objects,   \* self.selected_objects[0]: name and bone names of the selected armature
    dict_armatures,     \* skeleton root block -> list of bone blocks
    dict_names,         \* block -> Blender name
    dict_blocks,        \* Blender name -> block
    bpy_data,           \* names registered in bpy.data.objects / materials / meshes
    b_armatures,        \* armature block -> the Blender armature import_armature built
    arm_pc,             \* where import_root stands
    arm_error,          \* the exception that ended the import ("" if none)
    group_call,         \* block and result of the last is_grouping_node call
    NifCommon_dicts,    \* the dictionaries that are attributes of the class NifCommon
    self_bound,         \* per importer: the dictionary attributes bound on the instance
    self_dicts,         \* per importer: the dictionaries bound on the instance
    exec_pc,            \* per importer: where its execute stands
    exec_before,        \* per importer: what its dictionaries held when the run under way was called
    kf_call,            \* arguments and outcome of the last export_keyframes
    ext_call,           \* the get_extend_from_flags calls of a morph controller and the reports
    roots_run,          \* execute over the root blocks of the file: objects made, error raised, log
    dedup_run,          \* the vertex deduplication run on a vertex list and again on its result
    skin_run,           \* the skin bindings imported into one object: its vertices, vertex groups and weights
    bone_call,          \* a call of complete_bone_tree on a parent chain, and its outcome
    flip_call,          \* a call of export_flip_controller and its outcome
    file_run,           \* execute reading its files: handles, versions, what was read, roots imported
    roll_call,          \* a call of vec_roll_to_mat3 and of mat3_to_vec_roll on its result
    name_call,          \* the bone name conversion under way
    kind_run,           \* execute over root blocks of several block types
    branch_run,         \* import_branch on a node over geometries and plain nodes
    reach_run           \* the bones import_branch has come to, in the order of its walk

meshVars == <<combine_vertices, b_obj, b_mesh, mesh_pc, call>>

treeVars == <<n_tree, n_parent, skeleton, combine_shapes, IMPORT_EXTRANODES,
              data_file, selected_objects>>

armVars == <<dict_armatures, dict_names, dict_blocks, bpy_data, b_armatures,
             arm_pc, arm_error>>

execVars == <<NifCommon_dicts, self_bound, self_dicts, exec_pc, exec_before>>

moreVars == <<ext_call, roots_run, dedup_run, skin_run, bone_call, flip_call, file_run, roll_call, name_call, kind_run, branch_run, reach_run>>

vars == <<meshVars, treeVars, armVars, group_call, execVars, kf_call, moreVars>>

-----------------------------------------------------------------------------
(* Bounds of the model *)

MaxVerts == 3       \* longest free vertex list of a geometry
MaxTris == 3        \* longest triangle list of a geometry
MaxUV == 2          \* most UV sets of a geometry
SubSteps == 2       \* representable coordinate values per quantization cell
UVOne == 4          \* the texture coordinate 1.0 in fixed-point units

(* Program constants *)

VERTEX_RESOLUTION == 1000
NORMAL_RESOLUTION == 100

None == 0 - 1       \* Python's None where the code stores it among indices

-----------------------------------------------------------------------------
(* Generic helpers *)

SeqsUpTo(S, n) == UNION {[1..k -> S] : k \in 0..n}

Range(s) == {s[i] : i \in DOMAIN s}

Reverse(s) == [i \in 1..Len(s) |-> s[Len(s) + 1 - i]]

\* Python int() of the exact quotient a / d: truncation toward zero.
Trunc(a, d) == IF a >= 0 THEN a \div d ELSE -((-a) \div d)

CoordDenom == SubSteps * VERTEX_RESOLUTION
NormDenom == SubSteps * NORMAL_RESOLUTION

-----------------------------------------------------------------------------
(* The parts of the importer a specification does not exercise stay idle *)

NoTree == [kind |-> << >>, children |-> << >>, name |-> << >>, skin |-> << >>]

NoFile == [version |-> "", filepath |-> ""]

NoSelection == [name |-> << >>, bones |-> << >>]

EmptyBpyData == [objects |-> {}, materials |-> {}, meshes |-> {}]

NoGroupCall == [op |-> "", niBlock |-> None, result |-> << >>]

TreeIdle ==
    /\ n_tree = NoTree
    /\ n_parent = << >>
    /\ skeleton = ""
    /\ combine_shapes = FALSE
    /\ IMPORT_EXTRANODES = FALSE
    /\ data_file = NoFile
    /\ selected_objects = NoSelection

ArmIdle ==
    /\ dict_armatures = << >>
    /\ dict_names = << >>
    /\ dict_blocks = << >>
    /\ bpy_data = EmptyBpyData
    /\ b_armatures = << >>
    /\ arm_pc = "idle"
    /\ arm_error = ""

GroupIdle == group_call = NoGroupCall

NoKfCall == [op |-> ""]

KfIdle == kf_call = NoKfCall

NoExtCall == [op |-> "", flags |-> 0, result |-> "", curves |-> << >>, reports |-> << >>]

NoDedupRun == [op |-> ""]

NoRollCall == [op |-> ""]

NoNameCall == [op |-> ""]

NoReachRun == [done |-> << >>, error |-> ""]

NoBranchRun == [op |-> ""]

NoKindRun == [pc |-> "", roots |-> << >>, next |-> 0, log |-> << >>, error |-> "", bound |-> FALSE]

NoFileRun == [pc |-> "idle"]

NoFlipCall == [op |-> ""]

NoBoneCall == [op |-> ""]

NoSkinRun ==
    [pc |-> "idle", vertices |-> << >>, vertex_groups |-> << >>, log |-> << >>,
     geoms |-> 0, error |-> ""]

NoRootsRun == [pc |-> "", roots |-> << >>, next |-> 0, objects |-> << >>, error |-> "", log |-> << >>]

MoreIdle ==
    /\ ext_call = NoExtCall
    /\ reach_run = NoReachRun
    /\ branch_run = NoBranchRun
    /\ kind_run = NoKindRun
    /\ name_call = NoNameCall
    /\ roll_call = NoRollCall
    /\ file_run = NoFileRun
    /\ flip_call = NoFlipCall
    /\ bone_call = NoBoneCall
    /\ skin_run = NoSkinRun
    /\ dedup_run = NoDedupRun
    /\ roots_run = NoRootsRun

\* the importers of the session
Importers == {1, 2}

\* the dictionary attributes NifCommon declares that execute deals with
DictAttributes ==
    {"dict_armatures", "dict_bone_priorities", "dict_havok_objects", "dict_names",
     "dict_blocks", "dict_block_names", "dict_materials", "dict_textures",
     "dict_mesh_uvlayers"}

NoDicts == [d \in DictAttributes |-> {}]

\* NifCommon as the class statement leaves it and importers as __init__ leaves
\* them: the dictionaries are empty and none is bound on an instance
ExecIdle ==
    /\ NifCommon_dicts = NoDicts
    /\ self_bound = [i \in Importers |-> {}]
    /\ self_dicts = [i \in Importers |-> NoDicts]
    /\ exec_pc = [i \in Importers |-> "new"]
    /\ exec_before = [i \in Importers |-> NoDicts]

-----------------------------------------------------------------------------
(* import_mesh: the vertex map *)

\* int(v.x * self.VERTEX_RESOLUTION) for the stored coordinate c / CoordDenom
QuantizeVertex(c) == Trunc(c * VERTEX_RESOLUTION, CoordDenom)

\* int(n.x * self.NORMAL_RESOLUTION) for the stored normal component c / NormDenom
QuantizeNormal(c) == Trunc(c * NORMAL_RESOLUTION, NormDenom)

\* the key k of source vertex i (a Python index)
VertexKey(n_verts, n_norms, i) ==
    LET v == n_verts[i + 1] IN
    IF n_norms # <<>>
    THEN LET n == n_norms[i + 1] IN
         <<QuantizeVertex(v[1]), QuantizeVertex(v[2]), QuantizeVertex(v[3]),
           QuantizeNormal(n[1]), QuantizeNormal(n[2]), QuantizeNormal(n[3])>>
    ELSE <<QuantizeVertex(v[1]), QuantizeVertex(v[2]), QuantizeVertex(v[3])>>

\* n_map_k of the try block: None when combining is off or the key is new
LookupKey(combine, n_map, k) ==
    IF ~combine THEN None
    ELSE IF k \in DOMAIN n_map THEN n_map[k] ELSE None

\* "if not n_map_k": Python truth value of n_map_k (None and 0 are both false)
NotAdded(n_map_k) == n_map_k = None \/ n_map_k = 0

\* a transform applied whether asked for or not
AlwaysTransform(v, applytransform, transform) ==
    <<v[1] + transform[1], v[2] + transform[2], v[3] + transform[3]>>

\* v * transform: the node transform, modelled as a translation
ApplyTransform(v, applytransform, transform) ==
    IF applytransform
    THEN <<v[1] + transform[1], v[2] + transform[2], v[3] + transform[3]>>
    ELSE v

RECURSIVE VertexLoop(_, _, _, _, _, _, _, _, _)
\* for i, v in enumerate(n_verts): ...   (b_v_index is Len(vertices))
VertexLoop(n_verts, n_norms, combine, applytransform, transform, i, n_map, v_map, vertices) ==
    IF i = Len(n_verts)
    THEN [v_map |-> v_map, vertices |-> vertices, n_map |-> n_map]
    ELSE LET k == VertexKey(n_verts, n_norms, i)
             n_map_k == LookupKey(combine, n_map, k)
         IN  IF NotAdded(n_map_k)
             THEN VertexLoop(n_verts, n_norms, combine, applytransform, transform, i + 1,
                             [x \in DOMAIN n_map \cup {k} |-> IF x = k THEN i ELSE n_map[x]],
                             [v_map EXCEPT ![i + 1] = Len(vertices)],
                             Append(vertices,
                                    ApplyTransform(n_verts[i + 1], applytransform, transform)))
             ELSE VertexLoop(n_verts, n_norms, combine, applytransform, transform, i + 1,
                             n_map,
                             [v_map EXCEPT ![i + 1] = v_map[n_map_k + 1]],
                             vertices)

\* lines 1107-1170: v_map, n_map and the vertices added to the mesh
BuildVertexMap(g, combine, applytransform, vertices) ==
    VertexLoop(g.vertices, g.normals, combine, applytransform, g.transform, 0,
               << >>, [i \in 1..Len(g.vertices) |-> i - 1], vertices)

-----------------------------------------------------------------------------
(* import_mesh: polygons and loops *)

\* f_verts = [v_map[vert_index] for vert_index in f]
Remap(v_map, f) == [j \in 1..Len(f) |-> v_map[f[j] + 1]]

\* "if tuple(f_verts) in unique_faces"
IsDuplicateFace(f_verts, unique_faces) == f_verts \in Range(unique_faces)

RECURSIVE FaceLoop(_, _, _, _, _, _)
\* first loop over poly_gens: f_map and unique_faces
FaceLoop(poly_gens, v_map, i, b_f_index, f_map, unique_faces) ==
    IF i = Len(poly_gens)
    THEN [f_map |-> f_map, unique_faces |-> unique_faces]
    ELSE LET f_verts == Remap(v_map, poly_gens[i + 1]) IN
         IF IsDuplicateFace(f_verts, unique_faces)
         THEN FaceLoop(poly_gens, v_map, i + 1, b_f_index, f_map, unique_faces)
         ELSE FaceLoop(poly_gens, v_map, i + 1, b_f_index + 1,
                       [f_map EXCEPT ![i + 1] = b_f_index],
                       Append(unique_faces, f_verts))

\* the index the second loop uses to look up ls_list, unique_faces and poly_gens
FaceSlot(f_map_i, bf2_index) == f_map_i - bf2_index

\* the range of f_map positions the second loop visits
EmitRange(poly_gens, unique_faces) == Len(unique_faces)

RECURSIVE EmitLoop(_, _, _, _, _, _, _, _, _)
\* "for i in range(len(unique_faces))": loop_start, loop_total and the loop vertices
EmitLoop(poly_gens, v_map, f_map, unique_faces, ls_list, bf2_index, i, bl_index, m) ==
    IF i = EmitRange(poly_gens, unique_faces)
    THEN m
    ELSE IF f_map[i + 1] = None
    THEN EmitLoop(poly_gens, v_map, f_map, unique_faces, ls_list, bf2_index, i + 1, bl_index, m)
    ELSE LET p == f_map[i + 1]
             j == FaceSlot(p, bf2_index)
             lp_points == Remap(v_map, poly_gens[j + 1])
             n == Len(poly_gens[j + 1])
         IN  EmitLoop(poly_gens, v_map, f_map, unique_faces, ls_list, bf2_index, i + 1,
                      bl_index + n,
                      [m EXCEPT
                         !.polygons[p + 1] = [loop_start |-> ls_list[j + 1],
                                              loop_total |-> Len(unique_faces[j + 1])],
                         !.loops = [l \in 1..Len(m.loops) |->
                                      IF l - 1 >= bl_index /\ l - 1 < bl_index + n
                                      THEN lp_points[l - bl_index]
                                      ELSE m.loops[l]]])

NewPolygon == [loop_start |-> 0, loop_total |-> 0]

\* b_mesh.polygons.add(poly_count); b_mesh.loops.add(poly_count * 3): every
\* existing UV layer grows with the loops
AddPolygonsAndLoops(m, poly_count) ==
    [m EXCEPT
       !.polygons = m.polygons \o [x \in 1..poly_count |-> NewPolygon],
       !.loops = m.loops \o [x \in 1..(poly_count * 3) |-> 0],
       !.uv_data = [y \in 1..Len(m.uv_data) |->
                      m.uv_data[y] \o [x \in 1..(poly_count * 3) |-> <<0, 0>>]]]

\* lines 1172-1211; m is the mesh with the new vertices already added.
\* With no source polygon, ls_list is read before it is bound (line 1194).
BuildPolygons(g, v_map, m) ==
    LET poly_gens == g.triangles
        bf2_index == Len(m.polygons)
        bl_index == Len(m.loops)
        poly_count == Len(poly_gens)
        m1 == AddPolygonsAndLoops(m, poly_count)
        fl == FaceLoop(poly_gens, v_map, 0, bf2_index,
                       [i \in 1..poly_count |-> None], << >>)
        num_new_faces == Len(fl.unique_faces)
    IN  IF poly_count = 0
        THEN [error |-> "UnboundLocalError", mesh |-> m1, f_map |-> fl.f_map,
              unique_faces |-> fl.unique_faces, bf2_index |-> bf2_index, bl_index |-> bl_index]
        ELSE LET tp == Len(poly_gens[1])
                 ls_list == [x \in 1..num_new_faces |-> (x - 1) * tp + bl_index]
             IN  [error |-> "none",
                  mesh |-> EmitLoop(poly_gens, v_map, fl.f_map, fl.unique_faces, ls_list,
                                    bf2_index, 0, bl_index, m1),
                  f_map |-> fl.f_map, unique_faces |-> fl.unique_faces,
                  bf2_index |-> bf2_index, bl_index |-> bl_index]

-----------------------------------------------------------------------------
(* import_mesh: UV layers *)

\* one entry of n_uvco: the sticky UVs of one UV set, v imported as 1.0 - v
ImportUVSet(uv_set) ==
    [lw \in 1..Len(uv_set) |-> <<uv_set[lw][1], UVOne - uv_set[lw][2]>>]

\* lines 974-986: n_uvco, built per UV set and then reversed
N_uvco(uv_sets) == Reverse([i \in 1..Len(uv_sets) |-> ImportUVSet(uv_sets[i])])

\* self.texturehelper.get_uv_layer_name(i): one layer name per channel number
UVLayerName(i) == i

\* line 1289: the polygon that receives the UVs of source polygon b_f_index
UVTargetPolygon(b_f_index, f_map, bf2_index) == b_f_index + bf2_index

RECURSIVE PolyUVLoop(_, _, _, _, _, _, _, _)
\* "for b_f_index, f in enumerate(poly_gens)": writes into the layer data uvl
PolyUVLoop(poly_gens, uvco_i, polygons, f_map, bf2_index, b_f_index, uvl, written) ==
    IF b_f_index = Len(poly_gens)
    THEN [uvl |-> uvl, written |-> written]
    ELSE LET f == poly_gens[b_f_index + 1]
             b_poly == polygons[UVTargetPolygon(b_f_index, f_map, bf2_index) + 1]
             ls == b_poly.loop_start
         IN  PolyUVLoop(poly_gens, uvco_i, polygons, f_map, bf2_index, b_f_index + 1,
                        [l \in 1..Len(uvl) |->
                           IF l - 1 >= ls /\ l - 1 <= ls + 2
                           THEN uvco_i[f[l - ls] + 1]
                           ELSE uvl[l]],
                        written \cup {[n_poly |-> b_f_index, loop |-> ls + c] : c \in 0..2})

\* position of a layer name in uv_names, 0 when absent
LayerPos(uv_names, name) ==
    IF name \in Range(uv_names)
    THEN CHOOSE y \in 1..Len(uv_names) : uv_names[y] = name
    ELSE 0

\* b_mesh.uv_textures.new(uvlayer): the first layer of a mesh becomes the active
\* one; whether a later new layer becomes active is the host's choice
AddUVLayer(m, name, hostActivates) ==
    [m EXCEPT
       !.uv_names = Append(m.uv_names, name),
       !.uv_data = Append(m.uv_data, [l \in 1..Len(m.loops) |-> <<0, 0>>]),
       !.uv_active = IF Len(m.uv_names) = 0 \/ hostActivates
                     THEN Len(m.uv_names) + 1
                     ELSE m.uv_active]

RECURSIVE UVChannelLoop(_, _, _, _, _, _, _, _)
\* "for i in range(len(niData.uv_sets))"; uv_writes records, per channel i, which
\* layer and loops received the UVs of which source polygon
UVChannelLoop(g, n_uvco, f_map, bf2_index, hostActivates, i, m, uv_writes) ==
    IF i = Len(g.uv_sets)
    THEN [mesh |-> m, uv_writes |-> uv_writes]
    ELSE LET uvlayer == UVLayerName(i)
             m1 == IF LayerPos(m.uv_names, uvlayer) = 0
                   THEN AddUVLayer(m, uvlayer, hostActivates)
                   ELSE m
             r == PolyUVLoop(g.triangles, n_uvco[i + 1], m1.polygons, f_map, bf2_index, 0,
                             m1.uv_data[m1.uv_active], {})
         IN  UVChannelLoop(g, n_uvco, f_map, bf2_index, hostActivates, i + 1,
                           [m1 EXCEPT !.uv_data[m1.uv_active] = r.uvl],
                           uv_writes \cup
                             {[channel |-> i, layer |-> m1.uv_active,
                               n_poly |-> w.n_poly, loop |-> w.loop] : w \in r.written})

\* lines 1260-1293
ImportUV(g, f_map, bf2_index, hostActivates, m) ==
    IF Len(m.polygons) > 0
    THEN UVChannelLoop(g, N_uvco(g.uv_sets), f_map, bf2_index, hostActivates, 0, m, {})
    ELSE [mesh |-> m, uv_writes |-> {}]

-----------------------------------------------------------------------------
(* import_mesh as a whole *)

\* bpy.data.meshes.new(b_name)
EmptyMesh ==
    [vertices |-> << >>, polygons |-> << >>, loops |-> << >>,
     uv_names |-> << >>, uv_data |-> << >>, uv_active |-> 0]

NoCall ==
    [op |-> "none", g |-> << >>, group_mesh |-> FALSE, applytransform |-> FALSE,
     error |-> "none", stage |-> "none", v_map |-> << >>, f_map |-> << >>,
     unique_faces |-> << >>, b_v_index |-> 0, bf2_index |-> 0, bl_index |-> 0,
     uv_writes |-> {}, before |-> EmptyMesh]

\* the exception raised at line 964 when niBlock.data is missing: the message
\* is formatted from b_name, which is bound only on the new-mesh path (line 933)
NoDataError(group_mesh) == IF group_mesh THEN "UnboundLocalError" ELSE "NifError"

\* a matrix check that lets every call through
NoMatrixError(group_mesh, applytransform) == FALSE

\* lines 951-953: no matrix can be set on a mesh that is imported into a group
MatrixError(group_mesh, applytransform) == ~applytransform /\ group_mesh

\* import_mesh(niBlock, group_mesh, applytransform): the mesh it leaves behind,
\* its locals and the exception it ends with ("none" when it returns)
ImportMeshResult(g, group_mesh, applytransform, combine, mesh, hostActivates) ==
    LET m0 == IF group_mesh THEN mesh ELSE EmptyMesh
        base == [NoCall EXCEPT !.op = "import_mesh", !.g = g, !.group_mesh = group_mesh,
                               !.applytransform = applytransform, !.before = m0,
                               !.b_v_index = Len(m0.vertices),
                               !.bf2_index = Len(m0.polygons),
                               !.bl_index = Len(m0.loops)]
    IN  IF MatrixError(group_mesh, applytransform)
        THEN [mesh |-> m0, call |-> [base EXCEPT !.error = "NifError", !.stage = "matrix"]]
        ELSE IF ~g.has_data
        THEN [mesh |-> m0,
              call |-> [base EXCEPT !.error = NoDataError(group_mesh), !.stage = "data"]]
        ELSE LET vm == BuildVertexMap(g, combine, applytransform, m0.vertices)
                 m1 == [m0 EXCEPT !.vertices = vm.vertices]
                 bp == BuildPolygons(g, vm.v_map, m1)
                 c1 == [base EXCEPT !.v_map = vm.v_map, !.f_map = bp.f_map,
                                    !.unique_faces = bp.unique_faces]
             IN  IF bp.error # "none"
                 THEN [mesh |-> bp.mesh,
                       call |-> [c1 EXCEPT !.error = bp.error, !.stage = "polygons"]]
                 ELSE LET uv == ImportUV(g, bp.f_map, bp.bf2_index, hostActivates, bp.mesh)
                      IN  [mesh |-> uv.mesh,
                           call |-> [c1 EXCEPT !.stage = "returned",
                                               !.uv_writes = uv.uv_writes]]

-----------------------------------------------------------------------------
(* The geometries a NIF file can hold, within the bounds *)

\* vertex (position, normal) pairs: VertA and VertA2 differ but share their
\* key, VertB differs from VertA in the normal only, VertC in the position only
VertA == [co |-> <<0, 0, 0>>, n |-> <<0, 0, NormDenom>>]
VertA2 == [co |-> <<1, 0 - 1, 0>>, n |-> <<0, 1, NormDenom + 1>>]
VertB == [co |-> <<0, 0, 0>>, n |-> <<0, NormDenom, 0>>]
VertC == [co |-> <<SubSteps, 0, 0>>, n |-> <<0, 0, NormDenom>>]

VertChoices == {VertA, VertA2, VertB, VertC}

\* UV set ch of a geometry with nv vertices: u tells the vertex, v the set
UVSets(nv, nuv) == [ch \in 1..nuv |-> [i \in 1..nv |-> <<i, ch - 1>>]]

Geometry(vs, has_normals, tris, nuv) ==
    [has_data |-> TRUE,
     vertices |-> [i \in 1..Len(vs) |-> vs[i].co],
     normals |-> IF has_normals THEN [i \in 1..Len(vs) |-> vs[i].n] ELSE << >>,
     triangles |-> tris,
     uv_sets |-> UVSets(Len(vs), nuv),
     transform |-> <<CoordDenom, 0, 0>>]

\* a NiTriBasedGeom whose data reference is empty
NoDataGeom == [Geometry(<<VertA>>, TRUE, << >>, 0) EXCEPT !.has_data = FALSE]

\* one triangle over the first vertices of an nv-vertex list (none for nv = 0)
FirstTriangle(nv) == IF nv = 0 THEN << >> ELSE << <<0, 1 % nv, 2 % nv>> >>

\* every vertex list up to MaxVerts, with or without normals, one UV set
VertexGeoms ==
    {Geometry(vs, hn, FirstTriangle(Len(vs)), 1) :
        vs \in SeqsUpTo(VertChoices, MaxVerts), hn \in BOOLEAN}

\* four vertices of which (under combining) the second and third share a key
PatternVerts == <<VertC, VertA, VertA2, VertB>>

TriChoices == {<<0, 1, 3>>, <<0, 2, 3>>, <<1, 3, 0>>, <<3, 1, 0>>, <<1, 2, 3>>}

\* every triangle list up to MaxTris over the pattern, 0..MaxUV UV sets
TriangleGeoms ==
    {Geometry(PatternVerts, hn, tris, nuv) :
        hn \in BOOLEAN, tris \in SeqsUpTo(TriChoices, MaxTris), nuv \in 0..MaxUV}

Geoms == VertexGeoms \cup TriangleGeoms \cup {NoDataGeom}

\* the first child of a geometry group in the modelled runs
FirstGeoms ==
    {Geometry(PatternVerts, TRUE, << <<0, 1, 3>> >>, 1),
     Geometry(PatternVerts, TRUE, << <<0, 1, 3>>, <<0, 2, 3>> >>, 1),
     NoDataGeom}

-----------------------------------------------------------------------------
(* The callers of import_mesh *)

MeshInit ==
    /\ combine_vertices \in BOOLEAN
    /\ b_obj = "None"
    /\ b_mesh = EmptyMesh
    /\ mesh_pc = "start"
    /\ call = NoCall
    /\ TreeIdle
    /\ ArmIdle
    /\ GroupIdle
    /\ KfIdle
    /\ ExecIdle
    /\ MoreIdle

\* the state import_mesh leaves: on the new-mesh path the object exists from
\* line 937 on, whatever happens later
DoImportMesh(g, group_mesh, applytransform, hostActivates, next_pc) ==
    LET r == ImportMeshResult(g, group_mesh, applytransform, combine_vertices,
                              b_mesh, hostActivates)
    IN  /\ b_mesh' = r.mesh
        /\ call' = r.call
        /\ b_obj' = "Object"
        /\ mesh_pc' = IF r.call.error = "none" THEN next_pc ELSE "failed"
        /\ UNCHANGED <<combine_vertices, treeVars, armVars, group_call, execVars, kf_call, moreVars>>

\* import_branch on a NiTriBasedGeom: self.import_mesh(niBlock)  (line 487)
ImportBranchMesh ==
    /\ mesh_pc = "start"
    /\ \E g \in Geoms, h \in BOOLEAN :
          /\ (h => Len(g.uv_sets) > 1)
          /\ DoImportMesh(g, FALSE, FALSE, h, "done")

\* import_branch on a grouping node, first child: group_mesh=None (lines 576-582)
ImportGroupFirst ==
    /\ mesh_pc = "start"
    /\ \E g \in FirstGeoms :
          DoImportMesh(g, FALSE, TRUE, FALSE, "grouped")

\* import_branch on a grouping node, a further child: group_mesh=b_obj
ImportGroupNext ==
    /\ mesh_pc = "grouped"
    /\ \E g \in Geoms, h \in BOOLEAN :
          /\ (h => Len(g.uv_sets) > 1)
          /\ DoImportMesh(g, TRUE, TRUE, h, "done")

\* import_mesh(niBlock, group_mesh=b_obj) with applytransform left at its
\* default, False: a call import_branch never makes
ImportGroupUntransformed ==
    /\ mesh_pc = "grouped"
    /\ \E g \in FirstGeoms :
          DoImportMesh(g, TRUE, FALSE, FALSE, "done")

MeshNext ==
    ImportBranchMesh \/ ImportGroupFirst \/ ImportGroupNext \/ ImportGroupUntransformed

SpecMesh == MeshInit /\ [][MeshNext]_vars

-----------------------------------------------------------------------------
(* Claims about import_mesh *)

\* the call built its vertex map (it got past the data check)
HasVertexMap == call.op = "import_mesh" /\ call.stage \in {"polygons", "returned"}

Returned == call.op = "import_mesh" /\ call.stage = "returned"

\* the quantized key of source vertex i of the geometry of the last call
KeyOf(i) == VertexKey(call.g.vertices, call.g.normals, i)

SourceIndices == 0..(Len(call.g.vertices) - 1)

\* the first source vertex that carries the key of source vertex i
FirstWithKey(i) == CHOOSE j \in SourceIndices :
                      /\ KeyOf(j) = KeyOf(i)
                      /\ \A h \in SourceIndices : KeyOf(h) = KeyOf(i) => j <= h

\* the output indices created by the call
NewVertexIndices == call.b_v_index..(Len(b_mesh.vertices) - 1)

\* C1: with combine_vertices enabled two source vertices of a geometry share
\* an output vertex iff their quantized keys are equal, and the shared index is
\* the one created for the first source vertex with that key; with
\* combine_vertices disabled no two source vertices share an output vertex.
C1_VertexMapByKey ==
    HasVertexMap =>
        IF combine_vertices
        THEN /\ \A i, j \in SourceIndices :
                   (call.v_map[i + 1] = call.v_map[j + 1]) <=> (KeyOf(i) = KeyOf(j))
             /\ \A i \in SourceIndices :
                   /\ call.v_map[i + 1] = call.v_map[FirstWithKey(i) + 1]
                   /\ call.v_map[i + 1] \in NewVertexIndices
        ELSE \A i, j \in SourceIndices :
                   (call.v_map[i + 1] = call.v_map[j + 1]) => i = j

\* the source triangles of the last call, as Python indices
SourcePolys == 0..(Len(call.g.triangles) - 1)

RemappedTuple(i) == Remap(call.v_map, call.g.triangles[i + 1])

\* the polygons of the mesh, among those the call added, that were given loops
AddedPolygons ==
    {p \in call.bf2_index..(Len(b_mesh.polygons) - 1) : b_mesh.polygons[p + 1].loop_total > 0}

\* the vertex indices of the loops of polygon p, in loop order
LoopVerts(p) ==
    LET poly == b_mesh.polygons[p + 1] IN
    [c \in 1..poly.loop_total |-> b_mesh.loops[poly.loop_start + c]]

NoDuplicateTuples ==
    \A i, j \in SourcePolys : RemappedTuple(i) = RemappedTuple(j) => i = j

\* C2: the polygons added are at most the source triangles, as many exactly
\* when no two source triangles have the same remapped tuple, and a source
\* triangle is omitted only when its remapped tuple equals, in order, that of
\* an earlier triangle.
C2_PolygonCount ==
    Returned =>
        /\ Cardinality(AddedPolygons) <= Len(call.g.triangles)
        /\ (Cardinality(AddedPolygons) = Len(call.g.triangles)) <=> NoDuplicateTuples
        /\ \A i \in SourcePolys :
              (\A h \in SourcePolys : h < i => RemappedTuple(h) # RemappedTuple(i))
                 => \E p \in AddedPolygons : LoopVerts(p) = RemappedTuple(i)

\* the loops of polygon p (a Python index) of the mesh
LoopRange(p) ==
    {b_mesh.polygons[p + 1].loop_start + c : c \in 1..b_mesh.polygons[p + 1].loop_total}

\* C24: every polygon emitted for a source polygon has as many loops as the
\* source polygon has vertices, a loop range disjoint from that of every other
\* polygon of the mesh, and the loop vertex indices are the vertex-map images
\* of the indices of the source polygon, in order
C24_PolygonLoops ==
    Returned =>
        \A i \in SourcePolys :
            call.f_map[i + 1] # None =>
                /\ b_mesh.polygons[call.f_map[i + 1] + 1].loop_total
                      = Len(call.g.triangles[i + 1])
                /\ LoopVerts(call.f_map[i + 1]) = RemappedTuple(i)
                /\ \A q \in 0..(Len(b_mesh.polygons) - 1) :
                      q # call.f_map[i + 1] =>
                          LoopRange(q) \cap LoopRange(call.f_map[i + 1]) = {}

\* without a dropped polygon the loops of every polygon are those of its
\* source polygon
PolygonLoopsWithoutDrops ==
    (Returned /\ NoDuplicateTuples) => C24_PolygonLoops

\* what the mesh held before the call is still there: vertices, polygons,
\* loops and the UVs of the loops
EarlierKept ==
    /\ SubSeq(b_mesh.vertices, 1, Len(call.before.vertices)) = call.before.vertices
    /\ SubSeq(b_mesh.polygons, 1, Len(call.before.polygons)) = call.before.polygons
    /\ SubSeq(b_mesh.loops, 1, Len(call.before.loops)) = call.before.loops
    /\ \A y \in 1..Len(call.before.uv_data) :
          SubSeq(b_mesh.uv_data[y], 1, Len(call.before.loops)) = call.before.uv_data[y]

\* the vertices, polygons and loops of the call start at the counts the mesh
\* had before it
NewFromCounts ==
    /\ \A i \in SourceIndices : call.v_map[i + 1] >= Len(call.before.vertices)
    /\ \A i \in SourcePolys :
          call.f_map[i + 1] # None =>
              /\ call.f_map[i + 1] >= Len(call.before.polygons)
              /\ b_mesh.polygons[call.f_map[i + 1] + 1].loop_start >= Len(call.before.loops)

\* C29: appending a geometry to a group mesh leaves the vertices, polygons,
\* loops and loop UVs imported earlier unchanged, and the new vertices, polygons
\* and loops get indices starting at the counts the mesh had before the call
C29_AppendKeepsEarlier ==
    (Returned /\ call.group_mesh) => (EarlierKept /\ NewFromCounts)

\* an append that drops no source polygon leaves the earlier content alone
AppendWithoutDropsKeepsEarlier ==
    (Returned /\ call.group_mesh /\ NoDuplicateTuples) => (EarlierKept /\ NewFromCounts)

\* the UV of source vertex v in UV set ch (a Python index), as imported
SourceUV(ch, v) ==
    <<call.g.uv_sets[ch + 1][v + 1][1], UVOne - call.g.uv_sets[ch + 1][v + 1][2]>>

\* the data of the UV layer of channel ch
LayerOf(ch) == b_mesh.uv_data[LayerPos(b_mesh.uv_names, UVLayerName(ch))]

\* C3: for each UV channel and each kept polygon the loops of the polygon hold
\* the UVs of that channel's source UV set at the polygon's own source indices,
\* in loop order, and the UVs of a dropped source polygon are written nowhere.
C3_UVFromSourceIndices ==
    Returned =>
        /\ \A ch \in 0..(Len(call.g.uv_sets) - 1) : \A i \in SourcePolys :
              call.f_map[i + 1] # None =>
                 LET poly == b_mesh.polygons[call.f_map[i + 1] + 1] IN
                 \A c \in 1..3 :
                    LayerOf(ch)[poly.loop_start + c] = SourceUV(ch, call.g.triangles[i + 1][c])
        /\ \A w \in call.uv_writes : call.f_map[w.n_poly + 1] # None

\* C10: import_mesh on a geometry node without geometry payload fails with
\* NifError, on the new-mesh path and on the group-mesh path alike.
C10_NoDataRaisesNifError ==
    (call.op = "import_mesh" /\ call.stage = "data") => call.error = "NifError"

\* C12: import_mesh called with a group mesh to append to and applytransform
\* false raises NifError, and the group mesh holds the vertices, polygons,
\* loops and UV layers it held before the call
C12_GroupNeedsTransform ==
    (call.op = "import_mesh" /\ call.group_mesh /\ ~call.applytransform) =>
        /\ call.error = "NifError"
        /\ mesh_pc = "failed"
        /\ b_mesh = call.before

\* such a call with a geometry that has data, on a group mesh that holds the
\* vertices and polygons of a first child
C12_Witness ==
    /\ call.op = "import_mesh" /\ call.group_mesh /\ ~call.applytransform
    /\ call.g.has_data /\ Len(call.g.triangles) = 2
    /\ call.error = "NifError"
    /\ Len(b_mesh.vertices) > 0 /\ Len(b_mesh.polygons) > 0

\* C13: no polygon that import_mesh gave loops references the same output
\* vertex twice: a source triangle whose indices collapse to a repeated vertex
\* index under the vertex map is dropped
C13_NoRepeatedVertexInPolygon ==
    Returned =>
        /\ \A p \in AddedPolygons :
              \A c, e \in DOMAIN LoopVerts(p) : LoopVerts(p)[c] = LoopVerts(p)[e] => c = e
        /\ \A i \in SourcePolys :
              (\E c, e \in 1..3 : c # e /\ RemappedTuple(i)[c] = RemappedTuple(i)[e])
                 => call.f_map[i + 1] = None

-----------------------------------------------------------------------------
(* Python text (str and bytes) as sequences of one-character strings *)

Min(a, b) == IF a < b THEN a ELSE b

Max(a, b) == IF a > b THEN a ELSE b

\* s[:n]
SliceTo(s, n) ==
    IF n >= 0 THEN SubSeq(s, 1, Min(n, Len(s)))
    ELSE SubSeq(s, 1, Max(Len(s) + n, 0))

\* s[n:] for n >= 0
SliceFrom(s, n) == SubSeq(s, Min(n, Len(s)) + 1, Len(s))

\* s[-n:] for n > 0
SliceLast(s, n) == SubSeq(s, Max(Len(s) - n, 0) + 1, Len(s))

StartsWith(s, p) == Len(s) >= Len(p) /\ SubSeq(s, 1, Len(p)) = p

EndsWith(s, p) == Len(s) >= Len(p) /\ SubSeq(s, Len(s) - Len(p) + 1, Len(s)) = p

\* s.find(sub): the lowest Python index where sub occurs in s, -1 if none
Find(s, sub) ==
    LET hits == {i \in 0..(Len(s) - Len(sub)) : SubSeq(s, i + 1, i + Len(sub)) = sub}
    IN  IF hits = {} THEN 0 - 1
        ELSE CHOOSE i \in hits : \A j \in hits : i <= j

RECURSIVE Replace(_, _, _)
\* s.replace(old, new) for a non-empty old: every occurrence, left to right
Replace(s, old, new) ==
    IF Len(s) < Len(old) THEN s
    ELSE IF StartsWith(s, old)
         THEN new \o Replace(SliceFrom(s, Len(old)), old, new)
         ELSE <<Head(s)>> \o Replace(Tail(s), old, new)

LowerChar(c) ==
    CASE c = "A" -> "a" [] c = "B" -> "b" [] c = "C" -> "c" [] c = "L" -> "l"
      [] c = "M" -> "m" [] c = "N" -> "n" [] c = "O" -> "o" [] c = "P" -> "p"
      [] c = "R" -> "r" [] c = "U" -> "u" [] c = "I" -> "i"
      [] OTHER -> c

\* s.lower(), over the letters the model's names use
Lower(s) == [i \in 1..Len(s) |-> LowerChar(s[i])]

DigitChar(d) == <<"0", "1", "2", "3", "4", "5", "6", "7", "8", "9">>[d + 1]

RECURSIVE Decimal(_)
Decimal(n) == IF n < 10 THEN <<DigitChar(n)>>
              ELSE Decimal(n \div 10) \o <<DigitChar(n % 10)>>

\* '%02d' % n for n >= 0
Format02d(n) == IF n < 10 THEN <<"0">> \o Decimal(n) ELSE Decimal(n)

\* a == b in Python 3 for two text values: a bytes value never equals a str
PyTextEq(a_type, a, b_type, b) == a_type = b_type /\ a = b

Bip01 == <<"B", "i", "p", "0", "1">>
Bip01_L == Bip01 \o <<" ", "L", " ">>
Bip01_R == Bip01 \o <<" ", "R", " ">>
NPC == <<"N", "P", "C">>

\* NifCommon.get_bone_name_for_blender (name already decoded to str)
get_bone_name_for_blender(name) ==
    IF StartsWith(name, Bip01_L)
    THEN Bip01 \o <<" ">> \o SliceFrom(name, 8) \o <<".", "L">>
    ELSE IF StartsWith(name, Bip01_R)
    THEN Bip01 \o <<" ">> \o SliceFrom(name, 8) \o <<".", "R">>
    ELSE IF StartsWith(name, NPC \o <<" ", "L", " ">>) /\ EndsWith(name, <<"]">>)
    THEN Replace(Replace(Replace(name, NPC \o <<" ", "L">>, NPC),
                         <<"[", "L">>, <<"[">>),
                 <<"]">>, <<"]", ".", "L">>)
    ELSE IF StartsWith(name, NPC \o <<" ", "R", " ">>) /\ EndsWith(name, <<"]">>)
    THEN Replace(Replace(Replace(name, NPC \o <<" ", "R">>, NPC),
                         <<"[", "R">>, <<"[">>),
                 <<"]">>, <<"]", ".", "R">>)
    ELSE name

\* NifCommon.get_bone_name_for_nif
get_bone_name_for_nif(name) ==
    IF StartsWith(name, Bip01 \o <<" ">>)
    THEN IF EndsWith(name, <<".", "L">>)
         THEN Bip01_L \o SubSeq(name, 7, Len(name) - 2)
         ELSE IF EndsWith(name, <<".", "R">>)
         THEN Bip01_R \o SubSeq(name, 7, Len(name) - 2)
         ELSE name
    ELSE IF StartsWith(name, NPC \o <<" ">>) /\ EndsWith(name, <<"]", ".", "L">>)
    THEN Replace(Replace(Replace(name, NPC \o <<" ">>, NPC \o <<" ", "L">>),
                         <<"[">>, <<"[", "L">>),
                 <<"]", ".", "L">>, <<"]">>)
    ELSE IF StartsWith(name, NPC \o <<" ">>) /\ EndsWith(name, <<"]", ".", "R">>)
    THEN Replace(Replace(Replace(name, NPC \o <<" ">>, NPC \o <<" ", "R">>),
                         <<"[">>, <<"[", "R">>),
                 <<"]", ".", "R">>, <<"]">>)
    ELSE name

-----------------------------------------------------------------------------
(* The NIF block tree.  A block is its index in the tree record t; its      *)
(* children list, name (bytes) and skin instance are read from the file.    *)

\* isinstance(niBlock, NifFormat.NiNode): NiLODNode and RootCollisionNode are NiNodes
IsNiNode(t, niBlock) == t.kind[niBlock] \in {"NiNode", "NiLODNode", "RootCollisionNode"}

IsNiTriBasedGeom(t, niBlock) == t.kind[niBlock] = "NiTriBasedGeom"

InList(x, s) == \E i \in DOMAIN s : s[i] = x

\* [child for child in children if keep(child)], order preserved
RECURSIVE FilterSeq(_, _)
FilterSeq(s, keep) ==
    IF s = << >> THEN << >>
    ELSE IF Head(s) \in keep THEN <<Head(s)>> \o FilterSeq(Tail(s), keep)
         ELSE FilterSeq(Tail(s), keep)

RECURSIVE Tree(_, _)
RECURSIVE TreeOfList(_, _)
\* niBlock.tree(): the block and everything below it, depth first
Tree(t, niBlock) == <<niBlock>> \o TreeOfList(t, t.children[niBlock])

TreeOfList(t, blocks) ==
    IF blocks = << >> THEN << >>
    ELSE Tree(t, Head(blocks)) \o TreeOfList(t, Tail(blocks))

\* niBlock.find(block_name=..., block_type=NiNode or any): the first block of
\* the tree below niBlock, depth first, that carries the name
FindBlock(t, niBlock, block_name, nodes_only) ==
    LET order == Tree(t, niBlock)
        hits == {i \in DOMAIN order :
                    /\ t.name[order[i]] = block_name
                    /\ (nodes_only => IsNiNode(t, order[i]))}
    IN  IF hits = {} THEN None
        ELSE order[CHOOSE i \in hits : \A j \in hits : i <= j]

\* a parent pass that stops at the children of the block it is called on
ShallowParents(t, parent, niBlock) ==
    IF IsNiNode(t, niBlock)
    THEN [n \in DOMAIN parent |->
             IF InList(n, t.children[niBlock]) THEN niBlock ELSE parent[n]]
    ELSE parent

RECURSIVE set_parents(_, _, _)
RECURSIVE SetParentsOfList(_, _, _, _)
\* NifImport.set_parents: child._parent = niBlock down the NiNode children
set_parents(t, parent, niBlock) ==
    IF IsNiNode(t, niBlock)
    THEN SetParentsOfList(t, parent, niBlock, t.children[niBlock])
    ELSE parent

SetParentsOfList(t, parent, niBlock, children) ==
    IF children = << >> THEN parent
    ELSE IF Head(children) = None
    THEN SetParentsOfList(t, parent, niBlock, Tail(children))
    ELSE SetParentsOfList(t,
             set_parents(t, [parent EXCEPT ![Head(children)] = niBlock], Head(children)),
             niBlock, Tail(children))

NonAccum == <<" ", "n", "o", "n", "a", "c", "c", "u", "m">>

\* the trailer test of is_grouping_node: block names are bytes (the importer
\* decodes them wherever it needs text), the literal it compares with is a str
HasNonAccumTrailer(node_name) ==
    PyTextEq("bytes", Lower(SliceLast(node_name, 9)), "str", NonAccum)

\* NifImport.is_grouping_node: the grouped children, << >> if it is no grouping node
is_grouping_node(t, combine, niBlock) ==
    IF ~combine THEN << >>
    ELSE IF ~IsNiNode(t, niBlock) THEN << >>
    ELSE IF t.kind[niBlock] = "NiLODNode" THEN << >>
    ELSE IF t.kind[niBlock] = "RootCollisionNode"
    THEN FilterSeq(t.children[niBlock],
                   {child \in Range(t.children[niBlock]) : IsNiTriBasedGeom(t, child)})
    ELSE IF t.name[niBlock] = << >> THEN << >>
    ELSE LET node_name == IF HasNonAccumTrailer(t.name[niBlock])
                          THEN SliceTo(t.name[niBlock], 0 - 9)
                          ELSE t.name[niBlock]
         IN  FilterSeq(t.children[niBlock],
                       {child \in Range(t.children[niBlock]) :
                           /\ IsNiTriBasedGeom(t, child)
                           /\ Find(t.name[child], node_name) # 0 - 1})

-----------------------------------------------------------------------------
(* NifImport.import_name: the name table *)

\* d[k] = v on a Python dict
DictSet(d, k, v) == [x \in (DOMAIN d) \cup {k} |-> IF x = k THEN v ELSE d[x]]

InvMarker == <<"I", "n", "v", "M", "a", "r", "k", "e", "r">>

\* niBlock.name.decode(), or the stand-in for an empty name
NifName(t, niBlock) ==
    IF t.name[niBlock] # << >> THEN t.name[niBlock]
    ELSE IF t.kind[niBlock] = "RootCollisionNode"
         THEN <<"c", "o", "l", "l", "i", "s", "i", "o", "n">>
         ELSE <<"n", "o", "n", "a", "m", "e">>

\* 'niName not in self.dict_names': the keys of dict_names are blocks, and a
\* str is never equal to a block
NameNotInDictNames(niName, names) == \A b \in DOMAIN names : TRUE

\* shortName is in none of bpy.data.objects, bpy.data.materials, bpy.data.meshes
NotInUse(shortName, bpy) ==
    /\ shortName \notin bpy.objects
    /\ shortName \notin bpy.materials
    /\ shortName \notin bpy.meshes

\* the candidate of one round of the loop
ShortName(niName, max_length, uniqueInt) ==
    get_bone_name_for_blender(
        IF uniqueInt = 0 - 1 THEN SliceTo(niName, max_length - 1)
        ELSE SliceTo(niName, max_length - 4) \o <<".">> \o Format02d(uniqueInt))

RECURSIVE UniqueNameLoop(_, _, _, _, _)
\* for uniqueInt in range(-1, 1000): ... else: raise RuntimeError
UniqueNameLoop(niName, max_length, uniqueInt, names, bpy) ==
    IF uniqueInt >= 1000 THEN [name |-> << >>, error |-> "RuntimeError"]
    ELSE LET shortName == ShortName(niName, max_length, uniqueInt)
         IN  IF (niName = InvMarker /\ NameNotInDictNames(niName, names))
                \/ NotInUse(shortName, bpy)
             THEN [name |-> shortName, error |-> ""]
             ELSE UniqueNameLoop(niName, max_length, uniqueInt + 1, names, bpy)

\* import_name(niBlock, max_length): the name, the two tables after the call
import_name(t, names, blocks, bpy, niBlock, max_length) ==
    IF niBlock \in DOMAIN names
    THEN [name |-> names[niBlock], dict_names |-> names, dict_blocks |-> blocks,
          error |-> ""]
    ELSE LET r == UniqueNameLoop(NifName(t, niBlock), max_length, 0 - 1, names, bpy)
         IN  IF r.error # ""
             THEN [name |-> << >>, dict_names |-> names, dict_blocks |-> blocks,
                   error |-> r.error]
             ELSE [name |-> r.name,
                   dict_names |-> DictSet(names, niBlock, r.name),
                   dict_blocks |-> DictSet(blocks, r.name, niBlock),
                   error |-> ""]

-----------------------------------------------------------------------------
(* armaturesys/armature_import.py: marking armatures and bones *)

\* Armature.is_bone
is_bone(armatures, niBlock) ==
    /\ niBlock # None
    /\ \E a \in DOMAIN armatures : InList(niBlock, armatures[a])

\* Armature.is_armature_root
is_armature_root(t, armatures, niBlock) ==
    IsNiNode(t, niBlock) /\ niBlock \in DOMAIN armatures

\* a walk that takes the parent's parent for the parent
SkippedBoneParent(parent, bone) ==
    IF parent[bone] = None THEN None ELSE parent[parent[bone]]

\* boneparent = bone._parent
BoneParent(parent, bone) == parent[bone]

RECURSIVE complete_bone_tree(_, _, _, _)
\* Armature.complete_bone_tree(bone, skelroot): the armature map after the call
complete_bone_tree(parent, armatures, bone, skelroot) ==
    IF skelroot \notin DOMAIN armatures \/ ~InList(bone, armatures[skelroot])
    THEN [armatures |-> armatures, error |-> "AssertionError"]
    ELSE IF bone = None
    THEN [armatures |-> armatures, error |-> "AttributeError"]
    ELSE LET boneparent == BoneParent(parent, bone)
         IN  IF boneparent # skelroot
             THEN complete_bone_tree(parent,
                      IF ~InList(boneparent, armatures[skelroot])
                      THEN [armatures EXCEPT ![skelroot] = Append(@, boneparent)]
                      ELSE armatures,
                      boneparent, skelroot)
             ELSE [armatures |-> armatures, error |-> ""]

\* the branch of mark_armatures_bones that makes every NiNode a bone
AllNodesAreBones(policy, file) ==
    \/ policy = "SKELETON_ONLY"
    \/ /\ file.version \in {"0x14000005", "0x14020007"}
       /\ file.filepath \in {"skeleton.nif", "skeletonbeast.nif"}

\* whether the loop over skelroot.tree() of the skeleton branch passes a block by
SkipsAsBone(t, combine, skelroot, bone) ==
    \/ bone = skelroot
    \/ ~IsNiNode(t, bone)
    \/ is_grouping_node(t, combine, bone) # << >>

RECURSIVE SkeletonBonesLoop(_, _, _, _, _)
\* lines 253-261: for bone in skelroot.tree(): ... append(bone)
SkeletonBonesLoop(t, combine, skelroot, todo, bones) ==
    IF todo = << >> THEN bones
    ELSE SkeletonBonesLoop(t, combine, skelroot, Tail(todo),
             IF SkipsAsBone(t, combine, skelroot, Head(todo)) \/ InList(Head(todo), bones)
             THEN bones
             ELSE Append(bones, Head(todo)))

\* the skeleton root of the skeleton branch: Bip01 for Morrowind files
SkeletonRoot(t, file, niBlock) ==
    IF file.version = "0x04000002"
    THEN LET found == FindBlock(t, niBlock, Bip01, TRUE)
         IN  IF found = None THEN niBlock ELSE found
    ELSE niBlock

\* lines 237-262
MarkSkeleton(t, cfg, st, niBlock) ==
    IF ~IsNiNode(t, niBlock) THEN [st EXCEPT !.error = "NifError"]
    ELSE LET skelroot == SkeletonRoot(t, cfg.file, niBlock)
             before == IF skelroot \in DOMAIN st.armatures
                       THEN st.armatures[skelroot] ELSE << >>
         IN  [st EXCEPT !.armatures =
                 DictSet(st.armatures, skelroot,
                         SkeletonBonesLoop(t, cfg.combine_shapes, skelroot,
                                           Tree(t, skelroot), before))]

RECURSIVE SelectedBonesLoop(_, _, _, _, _)
\* lines 277-289: the bones of the selected armature, found by name below skelroot
SelectedBonesLoop(t, parent, skelroot, bone_names, st) ==
    IF bone_names = << >> \/ st.error # "" THEN st
    ELSE LET bone_name == Head(bone_names)
             bone_block == FindBlock(t, skelroot, get_bone_name_for_nif(bone_name), FALSE)
         IN  IF bone_block = None
             THEN SelectedBonesLoop(t, parent, skelroot, Tail(bone_names), st)
             ELSE LET appended == [st.armatures EXCEPT ![skelroot] = Append(@, bone_block)]
                      r == complete_bone_tree(parent, appended, bone_block, skelroot)
                  IN  SelectedBonesLoop(t, parent, skelroot, Tail(bone_names),
                          [armatures |-> r.armatures,
                           names |-> DictSet(st.names, bone_block, bone_name),
                           error |-> r.error])

\* lines 268-289
MarkSelected(t, parent, cfg, st, niBlock) ==
    LET skelroot == FindBlock(t, niBlock, cfg.selected.name, FALSE)
    IN  IF skelroot = None THEN [st EXCEPT !.error = "NifError"]
        ELSE SelectedBonesLoop(t, parent, skelroot, cfg.selected.bones,
                 [st EXCEPT !.armatures = DictSet(st.armatures, skelroot, << >>)])

NoSkin == [skeleton_root |-> None, bones |-> << >>]

RECURSIVE SkinBonesLoop(_, _, _, _)
\* lines 318-332: every bone of the skin instance, and its path to the root
SkinBonesLoop(parent, skelroot, bones, st) ==
    IF bones = << >> \/ st.error # "" THEN st
    ELSE LET boneBlock == Head(bones)
         IN  IF boneBlock = None
             THEN SkinBonesLoop(parent, skelroot, Tail(bones), st)
             ELSE LET listed == IF ~InList(boneBlock, st.armatures[skelroot])
                                THEN [st.armatures EXCEPT ![skelroot] = Append(@, boneBlock)]
                                ELSE st.armatures
                      r == complete_bone_tree(parent, listed, boneBlock, skelroot)
                  IN  SkinBonesLoop(parent, skelroot, Tail(bones),
                          [st EXCEPT !.armatures = r.armatures, !.error = r.error])

\* whether the loop over skelroot.tree() of the extra nodes passes a block by
SkipsAsExtraBone(t, combine, skelroot, bone) ==
    \/ bone = skelroot
    \/ ~IsNiNode(t, bone)
    \/ t.kind[bone] = "NiLODNode"
    \/ is_grouping_node(t, combine, bone) # << >>

RECURSIVE ExtraBonesLoop(_, _, _, _, _, _)
\* lines 335-357: IMPORT_EXTRANODES marks every other node below the root
ExtraBonesLoop(t, parent, combine, skelroot, todo, st) ==
    IF todo = << >> \/ st.error # "" THEN st
    ELSE LET bone == Head(todo)
         IN  IF SkipsAsExtraBone(t, combine, skelroot, bone)
                \/ InList(bone, st.armatures[skelroot])
             THEN ExtraBonesLoop(t, parent, combine, skelroot, Tail(todo), st)
             ELSE LET listed == [st.armatures EXCEPT ![skelroot] = Append(@, bone)]
                      r == complete_bone_tree(parent, listed, bone, skelroot)
                  IN  ExtraBonesLoop(t, parent, combine, skelroot, Tail(todo),
                          [st EXCEPT !.armatures = r.armatures, !.error = r.error])

\* lines 292-357: the skin instance of a geometry block
MarkSkin(t, parent, cfg, st, niBlock) ==
    IF ~IsNiTriBasedGeom(t, niBlock) \/ t.skin[niBlock] = NoSkin THEN st
    ELSE LET skelroot == t.skin[niBlock].skeleton_root
             known == skelroot \in DOMAIN st.armatures
             st1 == IF cfg.skeleton = "EVERYTHING" /\ ~known
                    THEN [st EXCEPT !.armatures = DictSet(@, skelroot, << >>)]
                    ELSE IF cfg.skeleton = "GEOMETRY_ONLY" /\ ~known
                    THEN [st EXCEPT !.error = "NifError"]
                    ELSE st
         IN  IF st1.error # "" THEN st1
             ELSE LET st2 == SkinBonesLoop(parent, skelroot, t.skin[niBlock].bones, st1)
                  IN  IF st2.error # "" \/ ~cfg.extranodes THEN st2
                      ELSE ExtraBonesLoop(t, parent, cfg.combine_shapes, skelroot,
                                          Tree(t, skelroot), st2)

RECURSIVE mark_armatures_bones(_, _, _, _, _)
RECURSIVE MarkChildren(_, _, _, _, _)
\* Armature.mark_armatures_bones(niBlock): armature map, name table and
\* exception after the call
mark_armatures_bones(t, parent, cfg, st, niBlock) ==
    IF AllNodesAreBones(cfg.skeleton, cfg.file)
    THEN MarkSkeleton(t, cfg, st, niBlock)
    ELSE LET st1 == IF cfg.skeleton = "GEOMETRY_ONLY" /\ DOMAIN st.armatures = {}
                    THEN MarkSelected(t, parent, cfg, st, niBlock)
                    ELSE st
         IN  IF st1.error # "" THEN st1
             ELSE LET st2 == MarkSkin(t, parent, cfg, st1, niBlock)
                  IN  IF st2.error # "" THEN st2
                      ELSE MarkChildren(t, parent, cfg, st2, t.children[niBlock])

\* lines 360-363: for child in niBlock.get_refs()
MarkChildren(t, parent, cfg, st, children) ==
    IF children = << >> \/ st.error # "" THEN st
    ELSE MarkChildren(t, parent, cfg,
             mark_armatures_bones(t, parent, cfg, st, Head(children)),
             Tail(children))

-----------------------------------------------------------------------------
(* armaturesys/armature_import.py: import_armature and import_bone *)

\* '%03d' % n
Format03d(n) == IF n < 10 THEN <<"0", "0">> \o Decimal(n)
                ELSE IF n < 100 THEN <<"0">> \o Decimal(n) ELSE Decimal(n)

RECURSIVE HostUniqueLoop(_, _, _)
HostUniqueLoop(name, used, n) ==
    IF (name \o <<".">> \o Format03d(n)) \notin used
    THEN name \o <<".">> \o Format03d(n)
    ELSE HostUniqueLoop(name, used, n + 1)

\* Blender gives a new datablock or edit bone the name asked for, or, when that
\* name is taken in its collection, the name with the next free .001 suffix
HostUniqueName(name, used) ==
    IF name \notin used THEN name ELSE HostUniqueLoop(name, used, 1)

BoneNames(bones) == {bones[i].name : i \in DOMAIN bones}

RECURSIVE import_bone(_, _, _, _, _, _)
RECURSIVE ImportChildBones(_, _, _, _, _, _)
\* the children of a block that are bones, in the order of its children list
ChildBones(t, armatures, niBlock) ==
    FilterSeq(t.children[niBlock],
              {child \in Range(t.children[niBlock]) : is_bone(armatures, child)})

\* import_bone from line 197 on, n being what import_name returned: the new
\* edit bone, then the child bones; the parent of a child bone is the bone
\* whose call created it
ImportBoneNamed(t, armatures, bpy, st, niBlock, b_parent, n) ==
    IF n.error # "" THEN [st EXCEPT !.error = n.error]
    ELSE ImportChildBones(t, armatures, bpy,
             [names |-> n.dict_names, blocks |-> n.dict_blocks,
              bones |-> Append(st.bones,
                               [block |-> niBlock,
                                name |-> HostUniqueName(n.name, BoneNames(st.bones)),
                                parent |-> b_parent]),
              error |-> ""],
             ChildBones(t, armatures, niBlock), niBlock)

\* Armature.import_bone: st.bones are the edit bones of the armature so far
import_bone(t, armatures, bpy, st, niBlock, b_parent) ==
    IF ~is_bone(armatures, niBlock) THEN st
    ELSE ImportBoneNamed(t, armatures, bpy, st, niBlock, b_parent,
                         import_name(t, st.names, st.blocks, bpy, niBlock, 32))

\* lines 209-211, and lines 142-143 of import_armature
ImportChildBones(t, armatures, bpy, st, niChildBones, b_parent) ==
    IF niChildBones = << >> \/ st.error # "" THEN st
    ELSE ImportChildBones(t, armatures, bpy,
             import_bone(t, armatures, bpy, st, Head(niChildBones), b_parent),
             Tail(niChildBones), b_parent)

\* lines 173-177: the block of every pose bone is looked up by the bone's name
PoseBoneKey(bone_name) ==
    IF StartsWith(bone_name, InvMarker) THEN InvMarker ELSE bone_name

PoseBonesError(bones, blocks) ==
    IF \E i \in DOMAIN bones : PoseBoneKey(bones[i].name) \notin DOMAIN blocks
    THEN "KeyError" ELSE ""

\* import_armature from line 146 on: the armature with its bones
ArmatureBuilt(bpy, b_name, st) ==
    [names |-> st.names, blocks |-> st.blocks, bpy |-> bpy,
     b_armature |-> [name |-> b_name, bones |-> st.bones],
     error |-> IF st.error # "" THEN st.error
               ELSE PoseBonesError(st.bones, st.blocks)]

\* import_armature from line 125 on, b_name being the name Blender gave the object
ArmatureObject(t, armatures, bpy, niArmature, n, b_name) ==
    ArmatureBuilt([bpy EXCEPT !.objects = @ \cup {b_name}], b_name,
        ImportChildBones(t, armatures, [bpy EXCEPT !.objects = @ \cup {b_name}],
            [names |-> n.dict_names, blocks |-> n.dict_blocks,
             bones |-> << >>, error |-> ""],
            ChildBones(t, armatures, niArmature), None))

\* import_armature after its import_name call, n being what that returned
ArmatureNamed(t, armatures, names, blocks, bpy, niArmature, n) ==
    IF n.error # ""
    THEN [names |-> names, blocks |-> blocks, bpy |-> bpy,
          b_armature |-> [name |-> << >>, bones |-> << >>], error |-> n.error]
    ELSE ArmatureObject(t, armatures, bpy, niArmature, n,
                        HostUniqueName(n.name, bpy.objects))

\* Armature.import_armature(niArmature) with animation import off
import_armature(t, armatures, names, blocks, bpy, niArmature) ==
    ArmatureNamed(t, armatures, names, blocks, bpy, niArmature,
                  import_name(t, names, blocks, bpy, niArmature, 256))

-----------------------------------------------------------------------------
(* The block trees and settings an import can meet *)

\* the ordered trees of two to four blocks, as the parent of every block
Shapes ==
    {<<None, 1>>,
     <<None, 1, 1>>, <<None, 1, 2>>,
     <<None, 1, 1, 1>>, <<None, 1, 1, 2>>, <<None, 1, 1, 3>>,
     <<None, 1, 2, 2>>, <<None, 1, 2, 3>>}

RECURSIVE SortedSeq(_)
SortedSeq(S) ==
    IF S = {} THEN << >>
    ELSE LET m == CHOOSE x \in S : \A y \in S : x <= y
         IN  <<m>> \o SortedSeq(S \ {m})

ChildrenOf(shape) ==
    [n \in DOMAIN shape |-> SortedSeq({c \in DOMAIN shape : shape[c] = n})]

NodeNames == {<<"a">>, Bip01}

GeomNames == {<<"a", "0">>, <<"c">>}

\* the kinds of the blocks of a shape: the root and every block with children is a NiNode
KindsOf(shape) ==
    {k \in [DOMAIN shape -> {"NiNode", "NiTriBasedGeom"}] :
        /\ k[1] = "NiNode"
        /\ \A c \in DOMAIN shape : shape[c] # None => k[shape[c]] = "NiNode"}

NamesOf(kind) ==
    {nm \in [DOMAIN kind -> NodeNames \cup GeomNames] :
        \A n \in DOMAIN kind :
            nm[n] \in (IF kind[n] = "NiNode" THEN NodeNames ELSE GeomNames)}

\* a skin instance names a skeleton root and one bone, or a null bone reference
SkinsOver(kind) ==
    LET nodes == {n \in DOMAIN kind : kind[n] = "NiNode"}
    IN  {[skeleton_root |-> s, bones |-> bl] :
            s \in nodes, bl \in {<<b>> : b \in nodes} \cup {<<None>>}}

\* the skins of a tree: NiNodes have none, and one geometry at most is skinned
SkinsOf(kind) ==
    {[n \in DOMAIN kind |-> NoSkin]} \cup
    {[n \in DOMAIN kind |-> IF n = g THEN sk ELSE NoSkin] :
        g \in {n \in DOMAIN kind : kind[n] = "NiTriBasedGeom"}, sk \in SkinsOver(kind)}

Trees ==
    UNION {UNION {{[kind |-> k, children |-> ChildrenOf(shape), name |-> nm, skin |-> sk] :
                      nm \in NamesOf(k), sk \in SkinsOf(k)} :
                  k \in KindsOf(shape)} :
           shape \in Shapes}

\* the files that make a difference to a policy: a Morrowind file for the
\* skeleton import, an Oblivion skeleton file for the import of everything
FilesFor(policy) ==
    IF policy = "SKELETON_ONLY"
    THEN {[version |-> "0x04000002", filepath |-> "mesh.nif"],
          [version |-> "0x14000005", filepath |-> "mesh.nif"]}
    ELSE IF policy = "EVERYTHING"
    THEN {[version |-> "0x14000005", filepath |-> "mesh.nif"],
          [version |-> "0x14000005", filepath |-> "skeleton.nif"]}
    ELSE {[version |-> "0x14000005", filepath |-> "mesh.nif"]}

\* the armature selected in Blender for GEOMETRY_ONLY: its name and bone names
Selections ==
    {[name |-> <<"a">>, bones |-> <<Bip01>>],
     [name |-> Bip01, bones |-> << <<"a">> >>],
     [name |-> <<"z">>, bones |-> << >>]}

-----------------------------------------------------------------------------
(* import_root: the parent pass, the marking, then the armatures *)

Root == 1

Config ==
    [skeleton |-> skeleton, combine_shapes |-> combine_shapes,
     extranodes |-> IMPORT_EXTRANODES, file |-> data_file,
     selected |-> selected_objects]

ArmInit ==
    /\ n_tree = NoTree
    /\ n_parent = << >>
    /\ skeleton \in {"SKELETON_ONLY", "GEOMETRY_ONLY", "EVERYTHING"}
    /\ combine_shapes \in BOOLEAN
    /\ IMPORT_EXTRANODES = TRUE
    /\ data_file = NoFile
    /\ selected_objects \in (IF skeleton = "GEOMETRY_ONLY" THEN Selections
                             ELSE {NoSelection})
    /\ dict_armatures = << >>
    /\ dict_names = << >>
    /\ dict_blocks = << >>
    /\ bpy_data = [EmptyBpyData EXCEPT !.objects =
                      IF skeleton = "GEOMETRY_ONLY" THEN {selected_objects.name} ELSE {}]
    /\ b_armatures = << >>
    /\ arm_pc = "start"
    /\ arm_error = ""
    /\ combine_vertices = FALSE
    /\ b_obj = "None"
    /\ b_mesh = EmptyMesh
    /\ mesh_pc = "idle"
    /\ call = NoCall
    /\ GroupIdle
    /\ KfIdle
    /\ ExecIdle
    /\ MoreIdle

\* execute, lines 151-162 and 264-266: the file is read, its root block is the tree
ReadFile ==
    /\ arm_pc = "start"
    /\ \E t \in Trees, f \in FilesFor(skeleton) :
          /\ n_tree' = t
          /\ n_parent' = [n \in DOMAIN t.kind |-> None]
          /\ data_file' = f
    /\ arm_pc' = "read"
    /\ UNCHANGED <<meshVars, skeleton, combine_shapes, IMPORT_EXTRANODES,
                   selected_objects, dict_armatures, dict_names, dict_blocks,
                   bpy_data, b_armatures, arm_error, group_call, execVars, kf_call, moreVars>>

\* the state mark_armatures_bones leaves
Marking(parent, st) ==
    /\ n_parent' = parent
    /\ dict_armatures' = st.armatures
    /\ dict_names' = st.names
    /\ arm_error' = st.error
    /\ arm_pc' = IF st.error = "" THEN "marked" ELSE "failed"

\* the parent pass over the tree of the root block
ParentPass == set_parents(n_tree, [n \in DOMAIN n_tree.kind |-> None], Root)

\* import_root, lines 346-362: root_block._parent = None, set_parents,
\* mark_armatures_bones
MarkArmaturesBones ==
    /\ arm_pc = "read"
    /\ Marking(ParentPass,
               mark_armatures_bones(n_tree, ParentPass, Config,
                   [armatures |-> dict_armatures, names |-> dict_names, error |-> ""],
                   Root))
    /\ UNCHANGED <<meshVars, n_tree, skeleton, combine_shapes, IMPORT_EXTRANODES,
                   data_file, selected_objects, dict_blocks, bpy_data, b_armatures,
                   group_call, execVars, kf_call, moreVars>>

\* the armature roots import_branch has still to come to, in the order of its
\* walk; a node without children is passed by unless IMPORT_EXTRANODES (line 511)
PendingArmatures ==
    FilterSeq(Tree(n_tree, Root),
              {n \in DOMAIN n_tree.kind :
                  /\ is_armature_root(n_tree, dict_armatures, n)
                  /\ (n_tree.children[n] # << >> \/ IMPORT_EXTRANODES)
                  /\ n \notin DOMAIN b_armatures})

\* the state import_armature leaves
ArmatureImported(niBlock, r) ==
    /\ dict_names' = r.names
    /\ dict_blocks' = r.blocks
    /\ bpy_data' = r.bpy
    /\ b_armatures' = DictSet(b_armatures, niBlock, r.b_armature)
    /\ arm_error' = r.error
    /\ arm_pc' = IF r.error = "" THEN "marked" ELSE "failed"

\* import_branch on an armature root, lines 511-526: import_armature(niBlock)
ImportArmature ==
    /\ arm_pc = "marked"
    /\ skeleton # "GEOMETRY_ONLY"
    /\ \E niBlock \in DOMAIN n_tree.kind :
          /\ PendingArmatures # << >>
          /\ niBlock = Head(PendingArmatures)
          /\ ArmatureImported(niBlock,
                 import_armature(n_tree, dict_armatures, dict_names, dict_blocks,
                                 bpy_data, niBlock))
    /\ UNCHANGED <<meshVars, treeVars, dict_armatures, group_call, execVars, kf_call, moreVars>>

ArmNext == ReadFile \/ MarkArmaturesBones \/ ImportArmature

SpecArm == ArmInit /\ [][ArmNext]_vars

-----------------------------------------------------------------------------
(* Claims about the armature marking and the name table *)

Blocks == DOMAIN n_tree.kind

\* the marking ended without an exception
Marked == arm_pc = "marked"

BoneList(skelroot) == Range(dict_armatures[skelroot])

RECURSIVE PathBelow(_, _)
\* the blocks on the _parent path from bone upwards, the skeleton root excluded
PathBelow(bone, skelroot) ==
    IF bone = None \/ bone = skelroot THEN {}
    ELSE {bone} \cup PathBelow(n_parent[bone], skelroot)

SkinnedGeoms == {g \in Blocks : n_tree.skin[g] # NoSkin}

BoundBones(g) == Range(n_tree.skin[g].bones) \ {None}

\* the edit bone import_armature made for a block in the armature of skelroot
BoneOf(skelroot, block) ==
    LET bones == b_armatures[skelroot].bones
    IN  bones[CHOOSE i \in DOMAIN bones : bones[i].block = block]

HasBoneOf(skelroot, block) ==
    \E i \in DOMAIN b_armatures[skelroot].bones :
        b_armatures[skelroot].bones[i].block = block

\* scenario D: a chain A -> B -> C below the skeleton root A, one skin, which
\* binds only C, everything imported
ScenarioD(A, B, C) ==
    /\ skeleton = "EVERYTHING"
    /\ ~AllNodesAreBones(skeleton, data_file)
    /\ n_tree.children[A] # << >> /\ InList(B, n_tree.children[A])
    /\ InList(C, n_tree.children[B])
    /\ \E g \in SkinnedGeoms :
          /\ SkinnedGeoms = {g}
          /\ n_tree.skin[g] = [skeleton_root |-> A, bones |-> <<C>>]

\* C4 (as the code has it): when the marking has run over a root without the
\* skeleton branch, every bone a skin binds is in the bone list of the skin's
\* skeleton root, together with every block on its parent path up to but not
\* including the skeleton root; the skeleton root is the key of the list, never
\* a member of it.  In scenario D the list of A holds B and C, the parent
\* link of B is A and that of C is B, and import_armature makes B a bone
\* without parent bone and C a bone whose parent bone is B.
C4_BonePathListed ==
    (Marked /\ ~AllNodesAreBones(skeleton, data_file)) =>
        /\ \A g \in SkinnedGeoms : \A b \in BoundBones(g) :
              LET s == n_tree.skin[g].skeleton_root
              IN  /\ s \in DOMAIN dict_armatures
                  /\ PathBelow(b, s) \subseteq BoneList(s)
        /\ \A s \in DOMAIN dict_armatures :
              /\ s \notin BoneList(s)
              /\ \A b \in BoneList(s) : PathBelow(b, s) \subseteq BoneList(s)
        /\ \A A, B, C \in Blocks :
              ScenarioD(A, B, C) =>
                  /\ {B, C} \subseteq BoneList(A)
                  /\ n_parent[B] = A /\ n_parent[C] = B
                  /\ A \in DOMAIN b_armatures =>
                        /\ HasBoneOf(A, B) /\ HasBoneOf(A, C)
                        /\ BoneOf(A, B).parent = None
                        /\ BoneOf(A, C).parent = B

\* scenario D has been marked and its armature imported
C4_Witness ==
    /\ Marked
    /\ \E A, B, C \in Blocks :
          /\ ScenarioD(A, B, C)
          /\ A \in DOMAIN b_armatures
          /\ BoneOf(A, C).parent = B

\* C4 as stated: in scenario D the bone set of the armature contains A, B and C
\* after complete_bone_tree, with B's parent link A and C's parent link B
C4_RootInBoneSet ==
    Marked =>
        \A A, B, C \in Blocks :
            ScenarioD(A, B, C) =>
                /\ {A, B, C} \subseteq BoneList(A)
                /\ n_parent[B] = A /\ n_parent[C] = B

\* every listed block hangs on the skeleton root or on another listed block
Connected(skelroot) ==
    \A b \in BoneList(skelroot) :
        n_parent[b] = skelroot \/ n_parent[b] \in BoneList(skelroot)

\* C5: after mark_armatures_bones has run over a root, under each of the three
\* skeleton policies, the bone list of every armature is connected (the parent
\* of each listed block is the skeleton root or a listed block), and
\* import_armature creates a bone for every listed block
C5_BoneTreeConnected ==
    Marked =>
        /\ \A s \in DOMAIN dict_armatures : Connected(s)
        /\ \A s \in DOMAIN b_armatures : \A b \in BoneList(s) : HasBoneOf(s, b)

\* C9: after the import_name calls of a run (here those of import_armature and
\* import_bone; GEOMETRY_ONLY, which fills the table from the selected armature,
\* is left aside) no two blocks hold the same name, dict_blocks maps every
\* name back to its block, and import_name on a named block returns the name
\* and changes neither table
C9_NameTableInjective ==
    skeleton # "GEOMETRY_ONLY" =>
        /\ \A x, y \in DOMAIN dict_names : dict_names[x] = dict_names[y] => x = y
        /\ \A x \in DOMAIN dict_names :
              /\ dict_names[x] \in DOMAIN dict_blocks
              /\ dict_blocks[dict_names[x]] = x
        /\ \A x \in DOMAIN dict_names :
              LET again == import_name(n_tree, dict_names, dict_blocks, bpy_data, x, 256)
              IN  /\ again.name = dict_names[x]
                  /\ again.dict_names = dict_names
                  /\ again.dict_blocks = dict_blocks

-----------------------------------------------------------------------------
(* is_grouping_node over a node and its children *)

a_NonAccum == <<"a", " ", "N", "o", "n", "A", "c", "c", "u", "m">>

\* the names of the nodes and of their children: empty, plain, with the trailer
GroupNodeNames == {<< >>, <<"a">>, a_NonAccum, <<"b">>}
GroupChildNames == {<< >>, <<"a">>, <<"x", "a">>, a_NonAccum, <<"c">>}

\* a node of any NiNode class over two children, each a mesh or a plain node
GroupTrees ==
    {[kind |-> <<k, k2, k3>>, children |-> <<<<2, 3>>, << >>, << >>>>,
      name |-> <<nm, nm2, nm3>>, skin |-> <<NoSkin, NoSkin, NoSkin>>] :
        k \in {"NiNode", "NiLODNode", "RootCollisionNode"},
        k2 \in {"NiNode", "NiTriBasedGeom"}, k3 \in {"NiTriBasedGeom"},
        nm \in GroupNodeNames, nm2 \in GroupChildNames, nm3 \in GroupChildNames}

GroupInit ==
    /\ n_tree = NoTree
    /\ n_parent = << >>
    /\ skeleton = ""
    /\ combine_shapes \in BOOLEAN
    /\ IMPORT_EXTRANODES = TRUE
    /\ data_file = NoFile
    /\ selected_objects = NoSelection
    /\ dict_armatures = << >>
    /\ dict_names = << >>
    /\ dict_blocks = << >>
    /\ bpy_data = EmptyBpyData
    /\ b_armatures = << >>
    /\ arm_pc = "idle"
    /\ arm_error = ""
    /\ combine_vertices = FALSE
    /\ b_obj = "None"
    /\ b_mesh = EmptyMesh
    /\ mesh_pc = "idle"
    /\ call = NoCall
    /\ group_call = NoGroupCall
    /\ KfIdle
    /\ ExecIdle
    /\ MoreIdle

\* execute, lines 151-162: the file is read, its root block is the tree
ReadGroupFile ==
    /\ n_tree = NoTree
    /\ n_tree' \in GroupTrees
    /\ UNCHANGED <<meshVars, n_parent, skeleton, combine_shapes, IMPORT_EXTRANODES,
                   data_file, selected_objects, armVars, group_call, execVars, kf_call, moreVars>>

\* import_branch, line 517: is_grouping_node(niBlock) on a block of the tree
IsGroupingNode ==
    /\ n_tree # NoTree
    /\ \E niBlock \in DOMAIN n_tree.kind :
          group_call' = [op |-> "is_grouping_node", niBlock |-> niBlock,
                         result |-> is_grouping_node(n_tree, combine_shapes, niBlock)]
    /\ UNCHANGED <<meshVars, treeVars, armVars, execVars, kf_call, moreVars>>

GroupNext == ReadGroupFile \/ IsGroupingNode

SpecGroup == GroupInit /\ [][GroupNext]_vars

\* the node's name with a trailing " NonAccum" (any case) taken off
WithoutTrailer(node_name) ==
    IF Lower(SliceLast(node_name, 9)) = NonAccum THEN SliceTo(node_name, 0 - 9)
    ELSE node_name

MeshChildren(t, niBlock) ==
    FilterSeq(t.children[niBlock],
              {child \in Range(t.children[niBlock]) : IsNiTriBasedGeom(t, child)})

\* the mesh children whose name contains the node's name without its trailer
NamedAfter(t, niBlock) ==
    FilterSeq(t.children[niBlock],
              {child \in Range(t.children[niBlock]) :
                  /\ IsNiTriBasedGeom(t, child)
                  /\ Find(t.name[child], WithoutTrailer(t.name[niBlock])) # 0 - 1})

\* C7: is_grouping_node returns the mesh children of a root collision node, or
\* the mesh children whose name contains the name of a named NiNode with a
\* trailing " NonAccum" stripped, when shapes are combined and the node is a
\* NiNode that is no LOD node; in every other case it returns the empty list
C7_GroupedChildren ==
    group_call.op = "is_grouping_node" =>
        group_call.result =
            (LET n == group_call.niBlock
             IN  IF ~combine_shapes \/ ~IsNiNode(n_tree, n)
                    \/ n_tree.kind[n] = "NiLODNode" THEN << >>
                 ELSE IF n_tree.kind[n] = "RootCollisionNode"
                 THEN MeshChildren(n_tree, n)
                 ELSE IF n_tree.name[n] = << >> THEN << >>
                 ELSE NamedAfter(n_tree, n))

\* the same with the name taken as it stands: holds of the code
C7_GroupedByFullName ==
    group_call.op = "is_grouping_node" =>
        group_call.result =
            (LET n == group_call.niBlock
             IN  IF ~combine_shapes \/ ~IsNiNode(n_tree, n)
                    \/ n_tree.kind[n] = "NiLODNode" THEN << >>
                 ELSE IF n_tree.kind[n] = "RootCollisionNode"
                 THEN MeshChildren(n_tree, n)
                 ELSE IF n_tree.name[n] = << >> THEN << >>
                 ELSE FilterSeq(n_tree.children[n],
                          {child \in Range(n_tree.children[n]) :
                              /\ IsNiTriBasedGeom(n_tree, child)
                              /\ Find(n_tree.name[child], n_tree.name[n]) # 0 - 1}))

-----------------------------------------------------------------------------
(* execute and the dictionaries of NifCommon *)

MaxRecords == 2

\* the key a run records under
Keys == {"k"}

\* self.<attribute>: the instance attribute if bound, else the class attribute
Resolve(i, d) ==
    IF d \in self_bound[i] THEN self_dicts[i][d] ELSE NifCommon_dicts[d]

\* a reset that leaves the name table alone
ResetButNames ==
    {"dict_armatures", "dict_bone_priorities", "dict_havok_objects",
     "dict_blocks", "dict_block_names", "dict_materials", "dict_textures",
     "dict_mesh_uvlayers"}

\* execute, lines 127-135: the attributes it binds to a new empty dictionary
ResetDicts ==
    {"dict_armatures", "dict_bone_priorities", "dict_havok_objects", "dict_names",
     "dict_blocks", "dict_block_names", "dict_materials", "dict_textures",
     "dict_mesh_uvlayers"}

Running == {i \in Importers : exec_pc[i] \in {"started", "running"}}

RECURSIVE SumOf(_, _)
SumOf(f, S) ==
    IF S = {} THEN 0
    ELSE LET x == CHOOSE y \in S : TRUE IN f[x] + SumOf(f, S \ {x})

\* the entries held by all the dictionaries together
Recorded ==
    SumOf([d \in DictAttributes |-> Cardinality(NifCommon_dicts[d])], DictAttributes)
    + SumOf([i \in Importers |->
                SumOf([d \in DictAttributes |-> Cardinality(self_dicts[i][d])],
                      DictAttributes)],
            Importers)

ExecInit ==
    /\ ExecIdle
    /\ MoreIdle
    /\ TreeIdle
    /\ ArmIdle
    /\ GroupIdle
    /\ KfIdle
    /\ combine_vertices = FALSE
    /\ b_obj = "None"
    /\ b_mesh = EmptyMesh
    /\ mesh_pc = "idle"
    /\ call = NoCall

\* execute is called on an importer, new or used, and runs lines 127-135
ExecuteStart(i) ==
    /\ Running = {}
    /\ exec_before' = [exec_before EXCEPT ![i] = [d \in DictAttributes |-> Resolve(i, d)]]
    /\ self_bound' = [self_bound EXCEPT ![i] = @ \cup ResetDicts]
    /\ self_dicts' = [self_dicts EXCEPT ![i] =
                         [d \in DictAttributes |-> IF d \in ResetDicts THEN {} ELSE @[d]]]
    /\ exec_pc' = [exec_pc EXCEPT ![i] = "started"]
    /\ UNCHANGED <<meshVars, treeVars, armVars, group_call, kf_call, NifCommon_dicts, moreVars>>

\* the run records under a key in self.<attribute> (import_name lines 885-886,
\* mark_armatures_bones line 305, the helpers' caches)
Record(i, d, k) ==
    /\ i \in Running
    /\ Recorded < MaxRecords
    /\ k \notin Resolve(i, d)
    /\ IF d \in self_bound[i]
       THEN /\ self_dicts' = [self_dicts EXCEPT ![i][d] = @ \cup {k}]
            /\ UNCHANGED NifCommon_dicts
       ELSE /\ NifCommon_dicts' = [NifCommon_dicts EXCEPT ![d] = @ \cup {k}]
            /\ UNCHANGED self_dicts
    /\ exec_pc' = [exec_pc EXCEPT ![i] = "running"]
    /\ UNCHANGED <<meshVars, treeVars, armVars, group_call, kf_call, self_bound, exec_before, moreVars>>

\* execute returns {'FINISHED'} (line 298)
ExecuteFinish(i) ==
    /\ i \in Running
    /\ exec_pc' = [exec_pc EXCEPT ![i] = "finished"]
    /\ exec_before' = [exec_before EXCEPT ![i] = NoDicts]
    /\ UNCHANGED <<meshVars, treeVars, armVars, group_call, kf_call, NifCommon_dicts,
                   self_bound, self_dicts, moreVars>>

\* a NifError leaves execute (lines 142-145 and on), through the finally clause
ExecuteFail(i) ==
    /\ i \in Running
    /\ exec_pc' = [exec_pc EXCEPT ![i] = "failed"]
    /\ exec_before' = [exec_before EXCEPT ![i] = NoDicts]
    /\ UNCHANGED <<meshVars, treeVars, armVars, group_call, kf_call, NifCommon_dicts,
                   self_bound, self_dicts, moreVars>>

ExecNext ==
    \E i \in Importers :
        \/ ExecuteStart(i)
        \/ \E d \in DictAttributes, k \in Keys : Record(i, d, k)
        \/ ExecuteFinish(i)
        \/ ExecuteFail(i)

SpecExec == ExecInit /\ [][ExecNext]_vars

\* the dictionaries the claim names
SharedDicts ==
    {"dict_names", "dict_blocks", "dict_armatures", "dict_bone_priorities",
     "dict_havok_objects", "dict_materials", "dict_textures"}

\* C8: at the start of every execute run (after lines 127-135) the name table,
\* the block table, the armature map, the bone-priority map, the havok-object
\* map and the material and texture caches the importer sees are empty,
\* whatever earlier runs on this or another importer, finished or failed, left
C8_DictsEmptyAtStart ==
    \A i \in Importers :
        exec_pc[i] = "started" => \A d \in SharedDicts : Resolve(i, d) = {}

\* an importer at the start of a run whose dictionaries held a name at the
\* call, left by an earlier run of its own, while the other importer
\* still holds what its finished run recorded
C8_Witness ==
    \E i, j \in Importers :
        /\ i # j
        /\ exec_pc[i] = "started"
        /\ exec_before[i]["dict_names"] # {}
        /\ exec_pc[j] = "finished"
        /\ self_dicts[j]["dict_materials"] # {}

-----------------------------------------------------------------------------
(* AnimationHelper.export_keyframes, without bind matrix and extra matrix *)

MaxFrames == 3

\* the frames of the scene, frame_start to frame_end
Frames == 1..MaxFrames

\* self.context.scene.render.fps
Fps == 30

V_0A020000 == 167903232

\* self.nif_export.version: 0x04000002, 0x0A020000, 0x14000005
Versions == {67108866, V_0A020000, 335544325}

\* the names bound in the module animation_export (its import statements)
ModuleNames == {"bpy", "mathutils", "NifFormat", "nif_utils"}

\* the samples of the curves of an action: location, pose quaternion and a
\* uniform scale (the three scale curves hold the same value)
LocAt(f) == <<f, 2 * f, 3 * f>>
QuatAt(f) == [x |-> f, y |-> 0, z |-> 0, w |-> 1]
ScaleAt(f) == f + 1

\* the samples of the object rotation curves OB_ROTX, OB_ROTY, OB_ROTZ, in
\* tens of degrees: half turns about the x axis
EulerAt(f) == [x |-> 18 * f, y |-> 0, z |-> 0]

NoAction ==
    [present |-> FALSE, loc |-> << >>, quat |-> << >>, euler |-> << >>, scale |-> << >>]

\* an action holds pose curves (PO_QUAT) or object curves (OB_ROT), not both
RotationFrames ==
    {r \in [quat : SUBSET Frames, euler : SUBSET Frames] : r.quat = {} \/ r.euler = {}}

Actions_ ==
    {NoAction} \cup
    {[present |-> TRUE, loc |-> [f \in l |-> LocAt(f)],
      quat |-> [f \in r.quat |-> QuatAt(f)],
      euler |-> [f \in r.euler |-> EulerAt(f)], scale |-> [f \in s |-> ScaleAt(f)]] :
        l \in SUBSET Frames, s \in SUBSET Frames, r \in RotationFrames}

\* parent_block.get_transform().get_scale_quat_translation()
ParentTransforms ==
    {[scale |-> 1, quat |-> [x |-> 0, y |-> 0, z |-> 0, w |-> 1], trans |-> <<0, 0, 0>>],
     [scale |-> 2, quat |-> [x |-> 1, y |-> 0, z |-> 0, w |-> 0], trans |-> <<5, 5, 5>>]}

NoKfi == [present |-> FALSE, translation |-> <<0, 0, 0>>,
          rotation |-> [x |-> 0, y |-> 0, z |-> 0, w |-> 1], scale |-> 1, data |-> "None"]

NoTrack == [interpolation |-> "None", keys |-> << >>]

NoKfd == [kind |-> "None", rotation_type |-> "None", num_rotation_keys |-> 0,
          quaternion_keys |-> << >>, xyz_rotations |-> <<NoTrack, NoTrack, NoTrack>>,
          translations |-> NoTrack, scales |-> NoTrack]

\* lines 113-117: nothing is created
KfNothing ==
    [blocks |-> << >>, controllers |-> << >>,
     kfc |-> [kind |-> "None", interpolator |-> "None", data |-> "None"],
     kfi |-> NoKfi, kfd |-> NoKfd, error |-> ""]

\* lines 127-147: the controller, and from 0x0A020000 on the interpolator
\* with the transform of the parent as its default data
KfController(version, parent) ==
    IF version < V_0A020000
    THEN [blocks |-> <<"NiKeyframeController">>, controllers |-> <<"kfc">>,
          kfc |-> [kind |-> "NiKeyframeController", interpolator |-> "None",
                   data |-> "None"],
          kfi |-> NoKfi, kfd |-> NoKfd, error |-> ""]
    ELSE [blocks |-> <<"NiTransformController", "NiTransformInterpolator">>,
          controllers |-> <<"kfc">>,
          kfc |-> [kind |-> "NiTransformController", interpolator |-> "kfi",
                   data |-> "None"],
          kfi |-> [present |-> TRUE, translation |-> parent.trans,
                   rotation |-> parent.quat, scale |-> parent.scale, data |-> "None"],
          kfd |-> NoKfd, error |-> ""]

\* isinstance(rot, mathutils.Euler().__class__): an Euler has no w
IsEuler(rot) == DOMAIN rot = {"x", "y", "z"}

\* mathutils.Euler([10 * x, 10 * y, 10 * z]): the angles in degrees
Euler10(sample) == [x |-> 10 * sample.x, y |-> 10 * sample.y, z |-> 10 * sample.z]

\* Euler.toQuat() of a rotation by half turns about the x axis
toQuat(euler) ==
    LET k == (euler.x \div 180) % 4
    IN  [x |-> IF k = 1 THEN 1 ELSE IF k = 3 THEN 0 - 1 ELSE 0, y |-> 0, z |-> 0,
         w |-> IF k = 0 THEN 1 ELSE IF k = 2 THEN 0 - 1 ELSE 0]

\* lines 278-283: "use quat if we have bind matrix and/or extra matrix"
ObjectRotation(euler, matrices) ==
    IF matrices THEN toQuat(euler) ELSE euler

\* lines 251-334 with bind_scale = extra_scale_inv = 1, identity rotations and
\* zero translations (the matrices, when given, are identities): the merged
\* curves hold the samples of the action
MergeCurves(b_action, matrices) ==
    [trans |-> b_action.loc,
     rot |-> IF b_action.euler # << >>
             THEN [f \in DOMAIN b_action.euler |->
                      ObjectRotation(Euler10(b_action.euler[f]), matrices)]
             ELSE b_action.quat,
     scale |-> b_action.scale]

\* list(curve.values())[0] of a curve with one sample
FirstValue(curve) == curve[CHOOSE f \in DOMAIN curve : TRUE]

\* lines 341-360: the interpolator of too few keys
KfStatic(kfi, curves) ==
    [kfi EXCEPT !.translation = IF curves.trans # << >> THEN FirstValue(curves.trans) ELSE @,
                !.rotation = IF curves.rot = << >> THEN @
                             ELSE IF IsEuler(FirstValue(curves.rot))
                             THEN toQuat(FirstValue(curves.rot))
                             ELSE FirstValue(curves.rot),
                !.scale = 1]

\* frames = list(curve.keys()); frames.sort(); one key per frame
KeysOf(curve) ==
    [i \in 1..Cardinality(DOMAIN curve) |->
        [time |-> (SortedSeq(DOMAIN curve)[i] - 1) * Fps,
         value |-> curve[SortedSeq(DOMAIN curve)[i]]]]

\* angle * 3.14159265358979323846 / 180.0, in thousandths
Radians(degrees) == (degrees * 3142) \div 180

\* the keys of one axis of an Euler rotation curve
AxisKeys(keys, axis) ==
    [i \in DOMAIN keys |-> [time |-> keys[i].time, value |-> Radians(keys[i].value[axis])]]

LinearTrack(keys) == [interpolation |-> "LINEAR", keys |-> keys]

\* lines 371-437: the data block with its rotation, translation and scale keys
KfData(version, curves) ==
    LET rot_keys == KeysOf(curves.rot)
        eulers == rot_keys # << >> /\ IsEuler(rot_keys[1].value)
    IN  [kind |-> IF version < V_0A020000 THEN "NiKeyframeData" ELSE "NiTransformData",
         rotation_type |-> IF eulers THEN "XYZ_ROTATION" ELSE "LINEAR",
         num_rotation_keys |-> IF eulers THEN 1 ELSE Len(rot_keys),
         quaternion_keys |-> IF eulers THEN << >> ELSE rot_keys,
         xyz_rotations |-> IF eulers
                           THEN <<LinearTrack(AxisKeys(rot_keys, "x")),
                                  LinearTrack(AxisKeys(rot_keys, "y")),
                                  LinearTrack(AxisKeys(rot_keys, "z"))>>
                           ELSE <<NoTrack, NoTrack, NoTrack>>,
         translations |-> LinearTrack(KeysOf(curves.trans)),
         scales |-> LinearTrack(KeysOf(curves.scale))]

\* lines 336-437: "now comes the real export"
KfExport(version, st, curves) ==
    IF /\ Max(Max(Cardinality(DOMAIN curves.rot), Cardinality(DOMAIN curves.trans)),
              Cardinality(DOMAIN curves.scale)) <= 1
       /\ version >= V_0A020000
    THEN [st EXCEPT !.kfi = KfStatic(@, curves)]
    ELSE IF version < V_0A020000
    THEN [st EXCEPT !.blocks = Append(@, "NiKeyframeData"),
                    !.kfd = KfData(version, curves), !.kfc.data = "kfd"]
    ELSE [st EXCEPT !.blocks = Append(@, "NiTransformData"),
                    !.kfd = KfData(version, curves), !.kfi.data = "kfd"]

\* lines 149-334: geometry files get no data; the curves of an action are
\* checked and merged through the names of Ipo, which the module never binds
KfCurves(animation, version, b_action, matrices, st) ==
    IF animation = "GEOM_NIF" THEN st
    ELSE IF ~b_action.present
    THEN KfExport(version, st, [trans |-> << >>, rot |-> << >>, scale |-> << >>])
    ELSE IF "Ipo" \notin ModuleNames THEN [st EXCEPT !.error = "NameError"]
    ELSE IF b_action.euler # << >> /\ "ipo" \notin ModuleNames
    THEN [st EXCEPT !.error = "NameError"]
    ELSE KfExport(version, st, MergeCurves(b_action, matrices))

\* AnimationHelper.export_keyframes(b_action, 'localspace', parent_block,
\* bind_matrix, extra_mat_inv); matrices: a bind or an extra matrix is given
export_keyframes(animation, version, b_action, parent, matrices) ==
    IF animation = "GEOM_NIF" /\ version < V_0A020000 THEN KfNothing
    ELSE KfCurves(animation, version, b_action, matrices, KfController(version, parent))

KfInit ==
    /\ kf_call = NoKfCall
    /\ ExecIdle
    /\ MoreIdle
    /\ TreeIdle
    /\ ArmIdle
    /\ GroupIdle
    /\ combine_vertices = FALSE
    /\ b_obj = "None"
    /\ b_mesh = EmptyMesh
    /\ mesh_pc = "idle"
    /\ call = NoCall

\* the exporter calls export_keyframes for the action of an object or bone
ExportKeyframes ==
    /\ kf_call = NoKfCall
    /\ \E animation \in {"ALL_NIF", "GEOM_NIF"}, version \in Versions,
          b_action \in Actions_, parent \in ParentTransforms, matrices \in BOOLEAN :
          kf_call' = [op |-> "export_keyframes", animation |-> animation,
                      version |-> version, b_action |-> b_action, parent |-> parent,
                      matrices |-> matrices,
                      result |-> export_keyframes(animation, version, b_action, parent,
                                                  matrices)]
    /\ UNCHANGED <<meshVars, treeVars, armVars, group_call, execVars, moreVars>>

SpecKf == KfInit /\ [][ExportKeyframes]_vars

\* the tracks of the action of the call hold one sample at most
FewSamples ==
    /\ Cardinality(DOMAIN kf_call.b_action.loc) <= 1
    /\ Cardinality(DOMAIN kf_call.b_action.quat) <= 1
    /\ Cardinality(DOMAIN kf_call.b_action.euler) <= 1
    /\ Cardinality(DOMAIN kf_call.b_action.scale) <= 1

\* C6: when export_keyframes runs for a version >= 0x0A020000 (animation
\* export on, no bind or extra matrix) and the translation, rotation and scale
\* tracks hold one sample at most, it creates no keyframe-data block and every
\* single sample, of translation, rotation and scale alike, is the default
\* value of the interpolator
C6_SingleSampleIsDefault ==
    (/\ kf_call.op = "export_keyframes"
     /\ kf_call.version >= V_0A020000
     /\ kf_call.animation # "GEOM_NIF"
     /\ ~kf_call.matrices
     /\ FewSamples) =>
        /\ kf_call.result.error = ""
        /\ ~InList("NiTransformData", kf_call.result.blocks)
        /\ kf_call.result.kfi.data = "None"
        /\ kf_call.b_action.loc # << >> =>
              kf_call.result.kfi.translation = FirstValue(kf_call.b_action.loc)
        /\ kf_call.b_action.quat # << >> =>
              kf_call.result.kfi.rotation = FirstValue(kf_call.b_action.quat)
        /\ kf_call.b_action.euler # << >> =>
              kf_call.result.kfi.rotation = toQuat(Euler10(FirstValue(kf_call.b_action.euler)))
        /\ kf_call.b_action.scale # << >> =>
              kf_call.result.kfi.scale = FirstValue(kf_call.b_action.scale)

\* the branch of too few keys on its own, over every action of one sample per
\* track at most: no data block, the translation and the rotation sample are
\* the defaults, the scale of the interpolator is 1 whatever the scale sample
KfStaticBranch ==
    \A version \in {v \in Versions : v >= V_0A020000}, parent \in ParentTransforms,
       b_action \in {a \in Actions_ : /\ a.present
                                      /\ Cardinality(DOMAIN a.loc) <= 1
                                      /\ Cardinality(DOMAIN a.quat) <= 1
                                      /\ Cardinality(DOMAIN a.euler) <= 1
                                      /\ Cardinality(DOMAIN a.scale) <= 1} :
        LET r == KfExport(version, KfController(version, parent),
                          MergeCurves(b_action, FALSE))
        IN  /\ r.kfd = NoKfd /\ r.kfi.data = "None"
            /\ r.blocks = <<"NiTransformController", "NiTransformInterpolator">>
            /\ b_action.loc # << >> => r.kfi.translation = FirstValue(b_action.loc)
            /\ b_action.quat # << >> => r.kfi.rotation = FirstValue(b_action.quat)
            /\ b_action.euler # << >> =>
                  r.kfi.rotation = toQuat(Euler10(FirstValue(b_action.euler)))
            /\ r.kfi.scale = 1

\* a track of the action holds more than one sample
ManySamples(b_action) ==
    \/ Cardinality(DOMAIN b_action.loc) > 1
    \/ Cardinality(DOMAIN b_action.quat) > 1
    \/ Cardinality(DOMAIN b_action.euler) > 1
    \/ Cardinality(DOMAIN b_action.scale) > 1

\* the rotation tracks of a data block: the three axes of an Euler track or
\* the quaternion keys
RotationTracks(kfd) ==
    IF kfd.rotation_type = "XYZ_ROTATION"
    THEN {kfd.xyz_rotations[i] : i \in 1..3}
    ELSE {LinearTrack(kfd.quaternion_keys)}

\* a track of n keys in strictly ascending time order, linear
LinearAscending(track, n) ==
    /\ track.interpolation = "LINEAR"
    /\ Len(track.keys) = n
    /\ \A i, j \in DOMAIN track.keys : i < j => track.keys[i].time < track.keys[j].time

\* the data block holds one key per sample of every track of the action
OneKeyPerSample(b_action, kfd) ==
    /\ kfd.kind \in {"NiKeyframeData", "NiTransformData"}
    /\ kfd.rotation_type \in {"XYZ_ROTATION", "LINEAR"}
    /\ \A track \in RotationTracks(kfd) :
          LinearAscending(track, Cardinality(DOMAIN b_action.quat)
                                 + Cardinality(DOMAIN b_action.euler))
    /\ LinearAscending(kfd.translations, Cardinality(DOMAIN b_action.loc))
    /\ LinearAscending(kfd.scales, Cardinality(DOMAIN b_action.scale))

\* C18: when a track of the action has more than one sample, export_keyframes
\* emits a keyframe-data block whose rotation, translation and scale tracks
\* hold one key per sample of the track, in strictly ascending time order,
\* with linear interpolation
C18_OneKeyPerSample ==
    (/\ kf_call.op = "export_keyframes"
     /\ kf_call.animation # "GEOM_NIF"
     /\ kf_call.b_action.present
     /\ ManySamples(kf_call.b_action)) =>
        /\ kf_call.result.error = ""
        /\ OneKeyPerSample(kf_call.b_action, kf_call.result.kfd)

\* the rotation track is an Euler track for Euler curves and a single
\* quaternion track for quaternion curves, and never both
RotationAsCurves(b_action, kfd) ==
    /\ b_action.euler # << >> =>
          /\ kfd.rotation_type = "XYZ_ROTATION"
          /\ kfd.quaternion_keys = << >>
          /\ \A i \in 1..3 : Len(kfd.xyz_rotations[i].keys) = Cardinality(DOMAIN b_action.euler)
    /\ b_action.quat # << >> =>
          /\ kfd.rotation_type = "LINEAR"
          /\ Len(kfd.quaternion_keys) = Cardinality(DOMAIN b_action.quat)
          /\ \A i \in 1..3 : kfd.xyz_rotations[i].keys = << >>

\* C19: the rotation track export_keyframes emits is an Euler track (three
\* linear tracks, one per axis) exactly when the rotation curves of the action
\* are Euler curves and a single quaternion track exactly when they are
\* quaternion curves, whether or not a bind or extra matrix is given
C19_RotationTrackAsCurves ==
    (/\ kf_call.op = "export_keyframes"
     /\ kf_call.animation # "GEOM_NIF"
     /\ kf_call.b_action.present
     /\ ManySamples(kf_call.b_action)
     /\ (kf_call.b_action.euler # << >> \/ kf_call.b_action.quat # << >>)) =>
        /\ kf_call.result.error = ""
        /\ RotationAsCurves(kf_call.b_action, kf_call.result.kfd)

\* the actions of more than one sample in a track
LongActions == {a \in Actions_ : a.present /\ ManySamples(a)}

\* the data branch (lines 362-437) on its own, on the curves as lines 251-334
\* would merge them: one key per sample, ascending and linear
KfDataBranch ==
    \A version \in Versions, parent \in ParentTransforms, b_action \in LongActions,
       matrices \in BOOLEAN :
        OneKeyPerSample(b_action,
            KfExport(version, KfController(version, parent),
                     MergeCurves(b_action, matrices)).kfd)

\* the data branch on its own: Euler curves give an Euler track only when no
\* bind or extra matrix is given, and a quaternion track otherwise
KfRotationBranch ==
    \A version \in Versions, parent \in ParentTransforms, b_action \in LongActions,
       matrices \in BOOLEAN :
        LET kfd == KfExport(version, KfController(version, parent),
                            MergeCurves(b_action, matrices)).kfd
        IN  /\ (kfd.rotation_type = "XYZ_ROTATION") = (b_action.euler # << >> /\ ~matrices)
            /\ kfd.rotation_type = "XYZ_ROTATION" => kfd.quaternion_keys = << >>
            /\ kfd.rotation_type = "LINEAR" =>
                  \A i \in 1..3 : kfd.xyz_rotations[i].keys = << >>
            /\ ~matrices => RotationAsCurves(b_action, kfd)

-----------------------------------------------------------------------------
(* NifCommon.get_extend_from_flags on the key curves of a morph controller *)

MaxFlags == 31
MaxMorphKeys == 3

\* the flags without the mask
Unmasked(flags) == flags

\* flags & 6 for flags >= 0
BitAnd6(flags) == ((flags \div 2) % 4) * 2

\* b_mesh.shape_keys.key_blocks[keyname] after line 1438
NewKeyCurve == [interpolation |-> "KEY_LINEAR", modifiers |-> << >>]

UnsupportedCycleMode == "Unsupported cycle mode in nif, using clamped."

\* NifCommon.get_extend_from_flags: the curve as the call leaves it, what the
\* call returns, and the warning it reports, if any
get_extend_from_flags(b_fcurve, flags) ==
    IF BitAnd6(flags) = 4
    THEN [b_fcurve |-> b_fcurve, returned |-> "b_fcurve", warning |-> << >>]
    ELSE IF BitAnd6(flags) = 0
    THEN [b_fcurve |-> [b_fcurve EXCEPT !.modifiers = Append(@, "CYCLES")],
          returned |-> "b_fcurve", warning |-> << >>]
    ELSE [b_fcurve |-> b_fcurve, returned |-> "CONSTANT",
          warning |-> <<UnsupportedCycleMode>>]

\* the extrapolation of a curve: it repeats under a CYCLES modifier, and is
\* clamped (Blender's constant extrapolation) without
ExtendOf(b_fcurve) ==
    IF InList("CYCLES", b_fcurve.modifiers) THEN "Repeat" ELSE "Clamp"

ExtInit ==
    /\ ext_call = NoExtCall
    /\ reach_run = NoReachRun
    /\ branch_run = NoBranchRun
    /\ kind_run = NoKindRun
    /\ name_call = NoNameCall
    /\ roll_call = NoRollCall
    /\ file_run = NoFileRun
    /\ flip_call = NoFlipCall
    /\ bone_call = NoBoneCall
    /\ skin_run = NoSkinRun
    /\ dedup_run = NoDedupRun
    /\ roots_run = NoRootsRun
    /\ KfIdle
    /\ ExecIdle
    /\ TreeIdle
    /\ ArmIdle
    /\ GroupIdle
    /\ combine_vertices = FALSE
    /\ b_obj = "None"
    /\ b_mesh = EmptyMesh
    /\ mesh_pc = "idle"
    /\ call = NoCall

\* import_mesh, lines 1386-1396: a morph controller is found, with its flags
ReadMorphController ==
    /\ ext_call.op = ""
    /\ \E flags \in 0..MaxFlags :
          ext_call' = [ext_call EXCEPT !.op = "morphCtrl", !.flags = flags]
    /\ UNCHANGED <<meshVars, treeVars, armVars, group_call, execVars, kf_call, roots_run, dedup_run, skin_run, bone_call, flip_call, file_run, roll_call, name_call, kind_run, branch_run, reach_run>>

\* what a get_extend_from_flags call on a new key curve leaves
ExtendSelected(r) ==
    ext_call' = [ext_call EXCEPT !.op = "get_extend_from_flags",
                                 !.result = r.returned,
                                 !.curves = Append(@, r.b_fcurve),
                                 !.reports = @ \o r.warning]

\* import_mesh, line 1440, for the next morph key of the controller
SelectExtend ==
    /\ ext_call.op # ""
    /\ Len(ext_call.curves) < MaxMorphKeys
    /\ ExtendSelected(get_extend_from_flags(NewKeyCurve, ext_call.flags))
    /\ UNCHANGED <<meshVars, treeVars, armVars, group_call, execVars, kf_call, roots_run, dedup_run, skin_run, bone_call, flip_call, file_run, roll_call, name_call, kind_run, branch_run, reach_run>>

ExtNext == ReadMorphController \/ SelectExtend

SpecExtend == ExtInit /\ [][ExtNext]_vars

\* bit b (of value 2^b) of the flags of the controller
FlagBit(b) == (ext_call.flags \div (2 ^ b)) % 2

LastCurve == ext_call.curves[Len(ext_call.curves)]

\* C20 as amended: get_extend_from_flags looks at bits 1 and 2 of the flags
\* only (flags & 6): the value 0b100 there gives Clamp and the value 0b000
\* Repeat, both without a warning, and the values 0b010 and 0b110 give Clamp
\* with one warning per call; all other bits are ignored
C20_ExtendFromMaskedFlags ==
    ext_call.op = "get_extend_from_flags" =>
        /\ (FlagBit(2) = 1 /\ FlagBit(1) = 0) =>
              /\ \A i \in DOMAIN ext_call.curves : ExtendOf(ext_call.curves[i]) = "Clamp"
              /\ ext_call.reports = << >>
        /\ (FlagBit(2) = 0 /\ FlagBit(1) = 0) =>
              /\ \A i \in DOMAIN ext_call.curves : ExtendOf(ext_call.curves[i]) = "Repeat"
              /\ ext_call.reports = << >>
        /\ FlagBit(1) = 1 =>
              /\ \A i \in DOMAIN ext_call.curves : ExtendOf(ext_call.curves[i]) = "Clamp"
              /\ ext_call.reports =
                    [i \in DOMAIN ext_call.curves |-> UnsupportedCycleMode]

\* flags 0b1001: a value that is neither 0b000 nor has bit 0b100, made Repeat
\* without a warning
C20_Witness ==
    /\ ext_call.op = "get_extend_from_flags"
    /\ ext_call.flags = 9
    /\ ExtendOf(LastCurve) = "Repeat"
    /\ ext_call.reports = << >>

\* C20: get_extend_from_flags maps a flag value with bit 0b100 set to Clamp
\* and the value 0b000 to Repeat, both without a warning, and every other
\* flag value to Clamp with a warning
C20_ExtendFromFlags ==
    ext_call.op = "get_extend_from_flags" =>
        IF FlagBit(2) = 1
        THEN ExtendOf(LastCurve) = "Clamp" /\ ext_call.reports = << >>
        ELSE IF ext_call.flags = 0
        THEN ExtendOf(LastCurve) = "Repeat" /\ ext_call.reports = << >>
        ELSE ExtendOf(LastCurve) = "Clamp" /\ ext_call.reports # << >>

-----------------------------------------------------------------------------
(* execute over the root blocks of a file whose geometries may lack data *)

MaxRoots == 3

\* a root block: a NiNode over geometry children, each with its data block
\* (TRUE) or with data None (FALSE); no shapes are combined
RootBlocks == {<<TRUE>>, <<FALSE>>, <<TRUE, FALSE>>, <<FALSE, TRUE>>, <<TRUE, TRUE>>}

RootLists == UNION {[1..n -> RootBlocks] : n \in 1..MaxRoots}

RECURSIVE ImportChildren(_, _, _, _)
\* import_branch on the children of a root, lines 618-625, each geometry
\* through import_mesh: a geometry without data raises NifError (lines 962-964)
\* and nothing catches it
ImportChildren(root, index, children, st) ==
    IF children = << >> \/ st.error # "" THEN st
    ELSE ImportChildren(root, index, Tail(children),
             IF Head(children)
             THEN [st EXCEPT !.objects =
                      Append(@, [root |-> index, child |-> Len(root) - Len(children) + 1])]
             ELSE [st EXCEPT !.error = "NifError"])

\* import_root(root) with the objects made so far
import_root(root, index, objects) ==
    ImportChildren(root, index, root, [objects |-> objects, error |-> ""])

\* a loop over the roots that goes on whatever import_root raised
Swallowed(error, next, n) ==
    IF next = n THEN "returned" ELSE "roots"

\* where execute stands after import_root on root next of n: an exception
\* leaves the loop and execute (lines 264-296 hold no except clause)
AfterRoot(error, next, n) ==
    IF error # "" THEN "raised"
    ELSE IF next = n THEN "returned" ELSE "roots"

RootsInit ==
    /\ roots_run = NoRootsRun
    /\ ext_call = NoExtCall
    /\ reach_run = NoReachRun
    /\ branch_run = NoBranchRun
    /\ kind_run = NoKindRun
    /\ name_call = NoNameCall
    /\ roll_call = NoRollCall
    /\ file_run = NoFileRun
    /\ flip_call = NoFlipCall
    /\ bone_call = NoBoneCall
    /\ skin_run = NoSkinRun
    /\ dedup_run = NoDedupRun
    /\ KfIdle
    /\ ExecIdle
    /\ TreeIdle
    /\ ArmIdle
    /\ GroupIdle
    /\ combine_vertices = FALSE
    /\ b_obj = "None"
    /\ b_mesh = EmptyMesh
    /\ mesh_pc = "idle"
    /\ call = NoCall

\* execute, lines 151-162: the file is read
ReadRoots ==
    /\ roots_run.pc = ""
    /\ \E roots \in RootLists :
          roots_run' = [roots_run EXCEPT !.pc = "roots", !.roots = roots, !.next = 1]
    /\ UNCHANGED <<meshVars, treeVars, armVars, group_call, execVars, kf_call, ext_call, dedup_run, skin_run, bone_call, flip_call, file_run, roll_call, name_call, kind_run, branch_run, reach_run>>

\* what import_root on the next root leaves; the finally clause (lines
\* 298-300) logs "Finished" when execute is left either way
RootImported(r) ==
    roots_run' =
        [roots_run EXCEPT
            !.objects = r.objects,
            !.error = r.error,
            !.pc = AfterRoot(r.error, roots_run.next, Len(roots_run.roots)),
            !.next = IF r.error = "" THEN @ + 1 ELSE @,
            !.log = IF AfterRoot(r.error, roots_run.next, Len(roots_run.roots)) = "roots"
                    THEN @ ELSE Append(@, "Finished")]

\* execute, lines 264-296: the next root block of the file
ExecuteRoot ==
    /\ roots_run.pc = "roots"
    /\ RootImported(import_root(roots_run.roots[roots_run.next], roots_run.next,
                                roots_run.objects))
    /\ UNCHANGED <<meshVars, treeVars, armVars, group_call, execVars, kf_call, ext_call, dedup_run, skin_run, bone_call, flip_call, file_run, roll_call, name_call, kind_run, branch_run, reach_run>>

RootsNext == ReadRoots \/ ExecuteRoot

SpecRoots == RootsInit /\ [][RootsNext]_vars

\* the first root of the file with a geometry that lacks data, 0 if none
FirstFailing ==
    LET failing == {i \in DOMAIN roots_run.roots :
                       \E c \in DOMAIN roots_run.roots[i] : ~roots_run.roots[i][c]}
    IN  IF failing = {} THEN 0 ELSE CHOOSE i \in failing : \A j \in failing : i <= j

ObjectsOfRoot(i) == {k \in DOMAIN roots_run.objects : roots_run.objects[k].root = i}

ExecuteLeft == roots_run.pc \in {"returned", "raised"}

\* C11 as amended: the error of a geometry without data aborts the whole
\* import: it leaves import_branch, import_root and execute uncaught (only
\* the finally clause runs), so when execute is left no object of a root block
\* that follows the failing one has been made, and of the failing root only
\* the geometries before the one without data
C11_ErrorAbortsImport ==
    (ExecuteLeft /\ FirstFailing # 0) =>
        /\ roots_run.pc = "raised"
        /\ roots_run.error = "NifError"
        /\ roots_run.log = <<"Finished">>
        /\ \A i \in DOMAIN roots_run.roots : i > FirstFailing => ObjectsOfRoot(i) = {}
        /\ \A k \in ObjectsOfRoot(FirstFailing) :
              \A c \in 1..roots_run.objects[k].child : roots_run.roots[FirstFailing][c]

\* a file of three roots whose first root lacks the data of its second
\* geometry: execute was left with the first geometry imported and nothing
\* of the two sound roots behind it
C11_Witness ==
    /\ roots_run.pc = "raised"
    /\ roots_run.roots = <<<<TRUE, FALSE>>, <<TRUE>>, <<TRUE, TRUE>>>>
    /\ roots_run.objects = <<[root |-> 1, child |-> 1]>>

\* C11: the error of a geometry without data aborts the import of its branch
\* only: the root blocks that follow the failing one in the file are still
\* imported by execute
C11_FollowingRootsImported ==
    (ExecuteLeft /\ FirstFailing # 0) =>
        \A i \in DOMAIN roots_run.roots :
            (i > FirstFailing /\ \A c \in DOMAIN roots_run.roots[i] : roots_run.roots[i][c])
                => Cardinality(ObjectsOfRoot(i)) = Len(roots_run.roots[i])

-----------------------------------------------------------------------------
(* The vertex deduplication of import_mesh, run on its own result *)

\* two vertices left of the origin: VertM1 shares the key of VertA (int()
\* truncates toward zero), VertM2 has the key below
VertM1 == [co |-> <<0 - 1, 0, 0>>, n |-> <<0, 0, NormDenom>>]
VertM2 == [co |-> <<0 - 2, 0, 0>>, n |-> <<0, 0, NormDenom>>]

DedupGeoms ==
    {Geometry(vs, hn, << >>, 0) :
        vs \in SeqsUpTo(VertChoices \cup {VertM1, VertM2}, MaxVerts), hn \in BOOLEAN}

\* the source vertex that output vertex j was added for
AddedFor(v_map, j) ==
    CHOOSE i \in DOMAIN v_map :
        v_map[i] = j /\ \A h \in DOMAIN v_map : v_map[h] = j => i <= h

\* the vertex list a run produced, as a geometry: the vertices as stored in
\* the mesh, each with the normal of the source vertex it was added for
ProducedGeom(g, vm) ==
    [g EXCEPT !.vertices = vm.vertices,
              !.normals = IF g.normals = << >> THEN << >>
                          ELSE [j \in 1..Len(vm.vertices) |->
                                   g.normals[AddedFor(vm.v_map, j - 1)]]]

\* lines 1107-1170 on a geometry, into an empty mesh
Deduplicate(g, combine, applytransform) ==
    BuildVertexMap(g, combine, applytransform, << >>)

DedupInit ==
    /\ dedup_run = NoDedupRun
    /\ ext_call = NoExtCall
    /\ reach_run = NoReachRun
    /\ branch_run = NoBranchRun
    /\ kind_run = NoKindRun
    /\ name_call = NoNameCall
    /\ roll_call = NoRollCall
    /\ file_run = NoFileRun
    /\ flip_call = NoFlipCall
    /\ bone_call = NoBoneCall
    /\ skin_run = NoSkinRun
    /\ roots_run = NoRootsRun
    /\ KfIdle
    /\ ExecIdle
    /\ TreeIdle
    /\ ArmIdle
    /\ GroupIdle
    /\ combine_vertices = TRUE
    /\ b_obj = "None"
    /\ b_mesh = EmptyMesh
    /\ mesh_pc = "idle"
    /\ call = NoCall

\* the second run, on what the first produced
DedupAgain(g, applytransform, first) ==
    dedup_run' = [op |-> "dedup", g |-> g, applytransform |-> applytransform,
                  first |-> first,
                  second |-> Deduplicate(ProducedGeom(g, first), combine_vertices, FALSE)]

\* the deduplication of a vertex list, then of its result
DedupTwice ==
    /\ dedup_run.op = ""
    /\ \E g \in DedupGeoms, applytransform \in BOOLEAN :
          DedupAgain(g, applytransform, Deduplicate(g, combine_vertices, applytransform))
    /\ UNCHANGED <<meshVars, treeVars, armVars, group_call, execVars, kf_call, ext_call,
                   roots_run, skin_run, bone_call, flip_call, file_run, roll_call, name_call, kind_run, branch_run, reach_run>>

SpecDedup == DedupInit /\ [][DedupTwice]_vars

\* the second run kept every vertex: as many vertices, and the identity map
SecondIsIdentity ==
    /\ Len(dedup_run.second.vertices) = Len(dedup_run.first.vertices)
    /\ dedup_run.second.v_map = [i \in 1..Len(dedup_run.first.vertices) |-> i - 1]

\* C15 as amended: with combine_vertices enabled and the vertices stored as
\* read (applytransform false), the deduplication run on the vertex list it
\* produced, with the normals of the kept vertices, yields as many vertices
\* and the identity vertex map
C15_DedupIdempotentUntransformed ==
    (dedup_run.op = "dedup" /\ ~dedup_run.applytransform) => SecondIsIdentity

\* a list of three vertices of which the run merged two, and the second run
\* kept the two that were left
C15_Witness ==
    /\ dedup_run.op = "dedup" /\ ~dedup_run.applytransform
    /\ Len(dedup_run.g.vertices) = 3
    /\ Len(dedup_run.first.vertices) = 2
    /\ dedup_run.second.v_map = <<0, 1>>

\* C15: with combine_vertices enabled, the deduplication run on the vertex
\* list it produced, with the normals of the kept vertices, yields as many
\* vertices and the identity vertex map
C15_DedupIdempotent ==
    dedup_run.op = "dedup" => SecondIsIdentity

-----------------------------------------------------------------------------
(* Skin bindings: the vertex groups of import_mesh *)

MaxSkinGeoms == 2
MaxSkinBones == 2

\* the bones of the skins and the names import_armature gave them
SkinBones == {1, 2}
SkinNames == (1 :> Bip01) @@ (2 :> NPC)

\* weights in tenths
SkinWeightChoices ==
    {<< >>, <<[index |-> 0, weight |-> 5]>>,
     <<[index |-> 0, weight |-> 10], [index |-> 1, weight |-> 5]>>}

\* skininst.bones with skindata.bone_list: a bone reference (None for an
\* empty bone) and its vertex weights; no bone is bound twice by one skin
Skins ==
    {s \in SeqsUpTo([bone : SkinBones \cup {None}, vertex_weights : SkinWeightChoices],
                    MaxSkinBones) :
        /\ s # << >>
        /\ \A i, j \in DOMAIN s : (i # j /\ s[i].bone # None) => s[i].bone # s[j].bone}

\* the geometry a skin deforms: two vertices that are kept apart
SkinGeom == Geometry(<<VertC, VertB>>, TRUE, << >>, 0)

\* b_obj.vertex_groups.items(): a list of (name, group) tuples
VertexGroupItems(groups) ==
    [i \in DOMAIN groups |-> [type |-> "tuple", value |-> <<groups[i].name, i>>]]

\* x in items, by Python equality: a str equals no tuple
PyIn(x_type, x, items) ==
    \E i \in DOMAIN items : items[i].type = x_type /\ items[i].value = x

GroupNames(groups) == {groups[i].name : i \in DOMAIN groups}

\* b_obj.vertex_groups.new(groupname): Blender gives the group the name asked
\* for, or the next free .001 name when the object has a group of that name
VertexGroupsNew(groups, groupname) ==
    Append(groups, [name |-> HostUniqueName(groupname, GroupNames(groups)),
                    weights |-> << >>])

\* v_group.add([v], weight, 'REPLACE') for each weight of the bone
RECURSIVE AddWeights(_, _, _, _)
AddWeights(group, vertex_weights, v_map, k) ==
    IF k > Len(vertex_weights) THEN group
    ELSE AddWeights([group EXCEPT !.weights =
                        DictSet(group.weights, v_map[vertex_weights[k].index + 1],
                                vertex_weights[k].weight)],
                    vertex_weights, v_map, k + 1)

\* what the loop logs for the claims: the bone, the mesh vertex, the weight
RECURSIVE LogWeights(_, _, _, _)
LogWeights(bone, vertex_weights, v_map, k) ==
    IF k > Len(vertex_weights) THEN << >>
    ELSE <<[bone |-> bone, vert |-> v_map[vertex_weights[k].index + 1],
            weight |-> vertex_weights[k].weight]>>
         \o LogWeights(bone, vertex_weights, v_map, k + 1)

\* lines 1329-1343: the loop over the bones of a skin. v_group is the index of
\* the group bound by an earlier iteration (0: not bound yet)
RECURSIVE ImportSkin(_, _, _, _, _, _, _)
ImportSkin(bones, names, v_map, groups, log, v_group, idx) ==
    IF idx > Len(bones) THEN [vertex_groups |-> groups, log |-> log, error |-> ""]
    ELSE IF bones[idx].bone = None
    THEN ImportSkin(bones, names, v_map, groups, log, v_group, idx + 1)
    ELSE IF bones[idx].bone \notin DOMAIN names
    THEN [vertex_groups |-> groups, log |-> log, error |-> "KeyError"]
    ELSE IF ~PyIn("str", names[bones[idx].bone], VertexGroupItems(groups))
    THEN ImportSkin(bones, names, v_map,
                    [VertexGroupsNew(groups, names[bones[idx].bone])
                        EXCEPT ![Len(groups) + 1] =
                            AddWeights(@, bones[idx].vertex_weights, v_map, 1)],
                    log \o LogWeights(bones[idx].bone, bones[idx].vertex_weights, v_map, 1),
                    Len(groups) + 1, idx + 1)
    ELSE IF v_group = 0 /\ bones[idx].vertex_weights # << >>
    THEN [vertex_groups |-> groups, log |-> log, error |-> "UnboundLocalError"]
    ELSE ImportSkin(bones, names, v_map,
                    IF v_group = 0 THEN groups
                    ELSE [groups EXCEPT ![v_group] =
                            AddWeights(@, bones[idx].vertex_weights, v_map, 1)],
                    log \o LogWeights(bones[idx].bone, bones[idx].vertex_weights, v_map, 1),
                    v_group, idx + 1)

SkinInit ==
    /\ skin_run = NoSkinRun
    /\ dedup_run = NoDedupRun
    /\ ext_call = NoExtCall
    /\ reach_run = NoReachRun
    /\ branch_run = NoBranchRun
    /\ kind_run = NoKindRun
    /\ name_call = NoNameCall
    /\ roll_call = NoRollCall
    /\ file_run = NoFileRun
    /\ flip_call = NoFlipCall
    /\ bone_call = NoBoneCall
    /\ roots_run = NoRootsRun
    /\ KfIdle
    /\ ExecIdle
    /\ TreeIdle
    /\ GroupIdle
    /\ dict_armatures = << >>
    /\ dict_names = SkinNames
    /\ dict_blocks = << >>
    /\ bpy_data = EmptyBpyData
    /\ b_armatures = << >>
    /\ arm_pc = "idle"
    /\ arm_error = ""
    /\ combine_vertices \in BOOLEAN
    /\ b_obj = "None"
    /\ b_mesh = EmptyMesh
    /\ mesh_pc = "idle"
    /\ call = NoCall

\* the vertices of the geometry are in the mesh: its skin is imported
SkinImported(pc, vm, bones) ==
    LET r == ImportSkin(bones, dict_names, vm.v_map, skin_run.vertex_groups,
                        skin_run.log, 0, 1)
    IN  skin_run' = [pc |-> pc, vertices |-> vm.vertices,
                     vertex_groups |-> r.vertex_groups, log |-> r.log,
                     geoms |-> skin_run.geoms + 1, error |-> r.error]

\* import_mesh of a skinned geometry into a new object
ImportSkinnedMesh ==
    /\ skin_run.pc = "idle"
    /\ \E bones \in Skins, pc \in {"grouped", "done"} :
          SkinImported(pc, BuildVertexMap(SkinGeom, combine_vertices, TRUE, << >>), bones)
    /\ UNCHANGED <<meshVars, treeVars, armVars, group_call, execVars, kf_call, ext_call,
                   roots_run, dedup_run, bone_call, flip_call, file_run, roll_call, name_call, kind_run, branch_run, reach_run>>

\* import_mesh of a further skinned geometry of the group, into the same object
ImportSkinnedNext ==
    /\ skin_run.pc = "grouped"
    /\ skin_run.geoms < MaxSkinGeoms
    /\ \E bones \in Skins, pc \in {"grouped", "done"} :
          SkinImported(pc, BuildVertexMap(SkinGeom, combine_vertices, TRUE,
                                          skin_run.vertices), bones)
    /\ UNCHANGED <<meshVars, treeVars, armVars, group_call, execVars, kf_call, ext_call,
                   roots_run, dedup_run, bone_call, flip_call, file_run, roll_call, name_call, kind_run, branch_run, reach_run>>

SkinNext == ImportSkinnedMesh \/ ImportSkinnedNext

SpecSkin == SkinInit /\ [][SkinNext]_vars

\* the groups of the object that carry the name of the bone
GroupsNamedAfter(bone) ==
    {i \in DOMAIN skin_run.vertex_groups : skin_run.vertex_groups[i].name = dict_names[bone]}

\* C14: the weights of each bound bone are in the one vertex group named after
\* that bone: every group of the object carries the name of a bone, no two
\* groups share a bone (a group that exists is reused), and every weight
\* imported for a bone is in the group named after it
C14_OneGroupPerBone ==
    /\ \A i \in DOMAIN skin_run.vertex_groups :
          \E bone \in DOMAIN dict_names : skin_run.vertex_groups[i].name = dict_names[bone]
    /\ \A k \in DOMAIN skin_run.log :
          \E i \in GroupsNamedAfter(skin_run.log[k].bone) :
              skin_run.log[k].vert \in DOMAIN skin_run.vertex_groups[i].weights

\* the skin of a single geometry gives one group per bound bone, named after
\* the bone, and each weight is in the group of its bone and in no other
SkinOfOneGeometry ==
    skin_run.geoms = 1 =>
        /\ skin_run.error = ""
        /\ \A i \in DOMAIN skin_run.vertex_groups :
              \E bone \in DOMAIN dict_names : skin_run.vertex_groups[i].name = dict_names[bone]
        /\ \A i, j \in DOMAIN skin_run.vertex_groups :
              skin_run.vertex_groups[i].name = skin_run.vertex_groups[j].name => i = j
        /\ \A i \in DOMAIN skin_run.vertex_groups :
              \A v \in DOMAIN skin_run.vertex_groups[i].weights :
                  \E k \in DOMAIN skin_run.log :
                      /\ dict_names[skin_run.log[k].bone] = skin_run.vertex_groups[i].name
                      /\ skin_run.log[k].vert = v

-----------------------------------------------------------------------------
(* complete_bone_tree on any parent chain *)

MaxChainBlocks == 4
ChainBlocks == 1..MaxChainBlocks

\* the _parent references of the blocks: any block or None
ParentMaps == [ChainBlocks -> ChainBlocks \cup {None}]

\* where the walk bone, bone._parent, ... ends: at the skeleton root, past the
\* root of the tree (None), or nowhere (a block is met again)
RECURSIVE ChainEnd(_, _, _, _)
ChainEnd(parent, bone, skelroot, seen) ==
    IF bone = None THEN "None"
    ELSE IF parent[bone] = skelroot THEN "skelroot"
    ELSE IF bone \in seen THEN "cycle"
    ELSE ChainEnd(parent, parent[bone], skelroot, seen \cup {bone})

\* the blocks the walk meets
RECURSIVE ChainOf(_, _, _, _)
ChainOf(parent, bone, skelroot, seen) ==
    IF bone = None \/ bone \in seen \/ parent[bone] = skelroot THEN seen \cup {bone}
    ELSE ChainOf(parent, parent[bone], skelroot, seen \cup {bone})

RECURSIVE MarkChain(_, _, _, _)
\* the bone list after the recursion has gone round a cycle: every block of
\* the cycle is appended when it is first met (lines 377-379)
MarkChain(parent, bones, bone, skelroot) ==
    IF InList(parent[bone], bones) THEN bones
    ELSE MarkChain(parent, Append(bones, parent[bone]), parent[bone], skelroot)

\* the call as the interpreter runs it: a recursion that does not end is cut
\* off by the recursion limit with RecursionError
CompleteBoneTreeCall(parent, armatures, bone, skelroot) ==
    IF ChainEnd(parent, bone, skelroot, {}) = "cycle"
    THEN [armatures |-> [armatures EXCEPT ![skelroot] =
                            MarkChain(parent, @, bone, skelroot)],
          error |-> "RecursionError"]
    ELSE complete_bone_tree(parent, armatures, bone, skelroot)

BoneInit ==
    /\ bone_call = NoBoneCall
    /\ skin_run = NoSkinRun
    /\ dedup_run = NoDedupRun
    /\ ext_call = NoExtCall
    /\ reach_run = NoReachRun
    /\ branch_run = NoBranchRun
    /\ kind_run = NoKindRun
    /\ name_call = NoNameCall
    /\ roll_call = NoRollCall
    /\ file_run = NoFileRun
    /\ flip_call = NoFlipCall
    /\ roots_run = NoRootsRun
    /\ KfIdle
    /\ ExecIdle
    /\ TreeIdle
    /\ ArmIdle
    /\ GroupIdle
    /\ combine_vertices = FALSE
    /\ b_obj = "None"
    /\ b_mesh = EmptyMesh
    /\ mesh_pc = "idle"
    /\ call = NoCall

BoneTreeCompleted(parent, bone, skelroot, before, r) ==
    bone_call' = [op |-> "complete_bone_tree", parent |-> parent, bone |-> bone,
                  skelroot |-> skelroot, before |-> before,
                  armatures |-> r.armatures, error |-> r.error]

\* complete_bone_tree(bone, skelroot) as mark_armatures_bones calls it: the
\* skeleton root is a key of dict_armatures and the bone is in its list
CompleteBoneTree ==
    /\ bone_call = NoBoneCall
    /\ \E parent \in ParentMaps, bone \in ChainBlocks, skelroot \in ChainBlocks :
          /\ bone # skelroot
          /\ BoneTreeCompleted(parent, bone, skelroot, (skelroot :> <<bone>>),
                CompleteBoneTreeCall(parent, (skelroot :> <<bone>>), bone, skelroot))
    /\ UNCHANGED <<meshVars, treeVars, armVars, group_call, execVars, kf_call, ext_call,
                   roots_run, dedup_run, skin_run, flip_call, file_run, roll_call, name_call, kind_run, branch_run, reach_run>>

SpecBone == BoneInit /\ [][CompleteBoneTree]_vars

BoneChainEnd ==
    ChainEnd(bone_call.parent, bone_call.bone, bone_call.skelroot, {})

\* C16: complete_bone_tree stops without an error when the parent chain
\* reaches the skeleton root; a chain that is cyclic or never reaches the
\* skeleton root is rejected with an error, without recursing to the limit of
\* the interpreter and without walking past the root of the tree (None is not
\* made a bone)
C16_ChainChecked ==
    bone_call.op = "complete_bone_tree" =>
        /\ BoneChainEnd = "skelroot" => bone_call.error = ""
        /\ BoneChainEnd # "skelroot" =>
              /\ bone_call.error \notin {"", "RecursionError"}
              /\ ~InList(None, bone_call.armatures[bone_call.skelroot])

\* a chain that reaches the skeleton root: the call ends without an error and
\* the bone list holds the blocks of the chain, each once
BoneChainToRoot ==
    (bone_call.op = "complete_bone_tree" /\ BoneChainEnd = "skelroot") =>
        /\ bone_call.error = ""
        /\ Range(bone_call.armatures[bone_call.skelroot])
              = ChainOf(bone_call.parent, bone_call.bone, bone_call.skelroot, {})
        /\ Len(bone_call.armatures[bone_call.skelroot])
              = Cardinality(Range(bone_call.armatures[bone_call.skelroot]))

\* a chain that ends at the root of the tree: None is made a bone and the
\* call fails on None._parent
BoneChainPastRoot ==
    (bone_call.op = "complete_bone_tree" /\ BoneChainEnd = "None") =>
        /\ bone_call.error = "AttributeError"
        /\ InList(None, bone_call.armatures[bone_call.skelroot])

-----------------------------------------------------------------------------
(* The parent pass of import_root *)

\* a children list with null references in it: before the first child and
\* after each child
WithNulls(children) ==
    IF children = << >> THEN << >>
    ELSE <<None>> \o [i \in 1..(2 * Len(children)) |->
                         IF i % 2 = 1 THEN children[(i + 1) \div 2] ELSE None]

\* the trees of the parent pass: NiNodes and geometries, with and without
\* null references in the children lists
ParentTrees ==
    UNION {{[kind |-> k,
             children |-> [n \in DOMAIN shape |->
                              IF nulls THEN WithNulls(ChildrenOf(shape)[n])
                              ELSE ChildrenOf(shape)[n]],
             name |-> [n \in DOMAIN shape |-> << >>],
             skin |-> [n \in DOMAIN shape |-> NoSkin]] :
               k \in KindsOf(shape), nulls \in BOOLEAN} :
           shape \in Shapes}

\* a block that has no _parent attribute
NoAttribute == 0 - 2

ParentsInit ==
    /\ TreeIdle
    /\ ArmIdle
    /\ GroupIdle
    /\ KfIdle
    /\ ExecIdle
    /\ MoreIdle
    /\ combine_vertices = FALSE
    /\ b_obj = "None"
    /\ b_mesh = EmptyMesh
    /\ mesh_pc = "idle"
    /\ call = NoCall

\* execute, lines 264-266: a root block of the file; no block has a _parent
\* attribute yet
ReadRootBlock ==
    /\ arm_pc = "idle"
    /\ \E t \in ParentTrees :
          /\ n_tree' = t
          /\ n_parent' = [n \in DOMAIN t.kind |-> NoAttribute]
    /\ arm_pc' = "read"
    /\ UNCHANGED <<meshVars, skeleton, combine_shapes, IMPORT_EXTRANODES, data_file,
                   selected_objects, dict_armatures, dict_names, dict_blocks,
                   bpy_data, b_armatures, arm_error, group_call, execVars, kf_call,
                   moreVars>>

\* import_root, lines 344-350: root_block._parent = None, then set_parents
SetParents ==
    /\ arm_pc = "read"
    /\ n_parent' = set_parents(n_tree, [n_parent EXCEPT ![Root] = None], Root)
    /\ arm_pc' = "parents"
    /\ UNCHANGED <<meshVars, n_tree, skeleton, combine_shapes, IMPORT_EXTRANODES,
                   data_file, selected_objects, dict_armatures, dict_names, dict_blocks,
                   bpy_data, b_armatures, arm_error, group_call, execVars, kf_call,
                   moreVars>>

ParentsNext == ReadRootBlock \/ SetParents

SpecParents == ParentsInit /\ [][ParentsNext]_vars

\* the non-null blocks below a block, through the children lists of NiNodes
RECURSIVE Below(_, _)
Below(t, niBlock) ==
    {niBlock} \cup
    (IF IsNiNode(t, niBlock)
     THEN UNION {Below(t, t.children[niBlock][i]) :
                    i \in {j \in DOMAIN t.children[niBlock] : t.children[niBlock][j] # None}}
     ELSE {})

\* the NiNodes whose children list holds the block
Containers(t, niBlock) ==
    {p \in DOMAIN t.kind : IsNiNode(t, p) /\ InList(niBlock, t.children[p])}

\* following the parent references from a block comes to the root in at most
\* steps steps
RECURSIVE ReachesRoot(_, _, _)
ReachesRoot(parent, niBlock, steps) ==
    \/ niBlock = Root
    \/ /\ steps > 0
       /\ parent[niBlock] \in DOMAIN parent
       /\ ReachesRoot(parent, parent[niBlock], steps - 1)

\* C17: after the parent pass the parent reference of the root is null, the
\* parent reference of every other block below the root is the NiNode whose
\* children list holds the block, and the parent references lead from the
\* block to the root
C17_ParentsAfterPass ==
    arm_pc = "parents" =>
        /\ n_parent[Root] = None
        /\ \A n \in Below(n_tree, Root) \ {Root} :
              /\ Containers(n_tree, n) = {n_parent[n]}
              /\ ReachesRoot(n_parent, n, Cardinality(DOMAIN n_tree.kind))
        /\ Below(n_tree, Root) = DOMAIN n_tree.kind

\* a tree of depth three with null references in the children lists, after
\* the parent pass
C17_Witness ==
    /\ arm_pc = "parents"
    /\ \E n \in DOMAIN n_tree.kind :
          /\ n_parent[n] \in DOMAIN n_parent \ {Root}
          /\ n_parent[n_parent[n]] \in DOMAIN n_parent \ {Root}
    /\ InList(None, n_tree.children[Root])

-----------------------------------------------------------------------------
(* TextureAnimation.export_flip_controller *)

MaxFlipLines == 3
MaxFlipFrame == 3

\* fliptxt.lines(): texture file names and empty lines
FlipLines == {<< >>, <<"a">>, <<"b">>}
FlipTexts == SeqsUpTo(FlipLines, MaxFlipLines)

\* scene.frame_start, scene.frame_end and scene.render.fps
FlipScenes ==
    {sc \in [frame_start : 1..2, frame_end : 1..MaxFlipFrame, fps : {25, 50}] :
        sc.frame_start <= sc.frame_end}

\* the attributes __init__ binds on a TextureAnimation (lines 503-504)
TextureAnimationAttributes == {"nif_export"}

\* the attributes of a helper that also keeps the context of its parent
WithContext == {"nif_export", "context"}

\* lines 530-539: one source texture per line that is not empty
RECURSIVE FlipSources(_)
FlipSources(tlist) ==
    IF tlist = << >> THEN << >>
    ELSE IF Len(Head(tlist)) = 0 THEN FlipSources(Tail(tlist))
    ELSE <<Head(tlist)>> \o FlipSources(Tail(tlist))

\* a delta that was never set
NoDelta == [num |-> 0, den |-> 0]

\* lines 518-524: the controller is created and added to the target
NewFlip ==
    [flags |-> 8, start_time |-> None, stop_time |-> None, sources |-> << >>,
     delta |-> NoDelta, error |-> ""]

\* lines 527-544 with the scene at hand; delta is the quotient
\* (stop_time - start_time) / count, kept as numerator and denominator
FlipTimes(flip, tlist, scene) ==
    LET start_time == (scene.frame_start - 1) * scene.fps
        stop_time == (scene.frame_end - scene.frame_start) * scene.fps
        sources == FlipSources(tlist)
        timed == [flip EXCEPT !.start_time = start_time, !.stop_time = stop_time,
                              !.sources = sources]
    IN  IF Len(sources) < 2 THEN [timed EXCEPT !.error = "NifError"]
        ELSE [timed EXCEPT !.delta = [num |-> stop_time - start_time,
                                      den |-> Len(sources)]]

\* export_flip_controller(fliptxt, texture, target, target_tex) on a helper
\* with the given attributes: self.context is read at line 527
export_flip_controller(attributes, tlist, scene) ==
    IF "context" \notin attributes THEN [NewFlip EXCEPT !.error = "AttributeError"]
    ELSE FlipTimes(NewFlip, tlist, scene)

FlipInit ==
    /\ TreeIdle
    /\ ArmIdle
    /\ GroupIdle
    /\ KfIdle
    /\ ExecIdle
    /\ MoreIdle
    /\ combine_vertices = FALSE
    /\ b_obj = "None"
    /\ b_mesh = EmptyMesh
    /\ mesh_pc = "idle"
    /\ call = NoCall

\* the exporter calls export_flip_controller for a texture with a flip text
ExportFlipController ==
    /\ flip_call = NoFlipCall
    /\ \E tlist \in FlipTexts, scene \in FlipScenes :
          flip_call' = [op |-> "export_flip_controller", tlist |-> tlist, scene |-> scene,
                        flip |-> export_flip_controller(TextureAnimationAttributes,
                                                        tlist, scene)]
    /\ UNCHANGED <<meshVars, treeVars, armVars, group_call, execVars, kf_call, ext_call,
                   roots_run, dedup_run, skin_run, bone_call, file_run, roll_call, name_call, kind_run, branch_run, reach_run>>

SpecFlip == FlipInit /\ [][ExportFlipController]_vars

\* the error for fewer than two textures, and otherwise a delta that is the
\* time span over the number of textures
FlipChecked(tlist, flip) ==
    /\ Len(FlipSources(tlist)) < 2 => flip.error = "NifError"
    /\ Len(FlipSources(tlist)) >= 2 =>
          /\ flip.error = ""
          /\ flip.delta # NoDelta
          /\ flip.delta.den = Len(FlipSources(tlist))
          /\ flip.delta.num = flip.stop_time - flip.start_time

\* C21: export_flip_controller raises the error of a bad flip text (NifError)
\* when the text holds fewer than two lines that are not empty, and otherwise
\* sets delta to (stop_time - start_time) / number of textures
C21_FlipDelta ==
    flip_call.op = "export_flip_controller" => FlipChecked(flip_call.tlist, flip_call.flip)

\* lines 527-544 on their own, with a context at hand: the error for fewer
\* than two textures, the delta otherwise (two textures over 100 give 50)
FlipBody ==
    /\ \A tlist \in FlipTexts, scene \in FlipScenes :
          FlipChecked(tlist, export_flip_controller(WithContext, tlist, scene))
    /\ export_flip_controller(WithContext, <<<<"a">>, << >>, <<"b">>>>,
                              [frame_start |-> 1, frame_end |-> 3, fps |-> 50]).delta
          = [num |-> 100, den |-> 2]

-----------------------------------------------------------------------------
(* execute: the files are read before the root blocks are imported *)

MaxFileRoots == 2

\* the files of execute in the order it reads them: the NIF file, the
\* keyframe file, the FaceGen EGM file
NifFiles == <<"nif", "kf", "egm">>

\* self.properties.keyframe_file and self.properties.egm_file are optional
FileSettings == {c \in SUBSET {"nif", "kf", "egm"} : "nif" \in c}

\* what inspect leaves in data.version: a version, -1 (not supported), -2 (no
\* such file format)
InspectedVersions == {335544325, 0 - 1, 0 - 2}

\* a file that was never inspected
NotInspected == 0 - 3

\* a finally clause that leaves the file as it is
LeftOpen(handle) == handle

\* the finally clause of a file: niffile.close()
Finally(handle) == "closed"

\* the step after a file is done with: the next file, then the import
AfterFile(run) ==
    IF run.cur < Len(NifFiles)
    THEN [run EXCEPT !.pc = "open", !.cur = @ + 1]
    ELSE [run EXCEPT !.pc = "import"]

\* the exception leaves execute through its finally clause (line 298)
Raise(run, error) == [run EXCEPT !.pc = "failed", !.error = error]

FilesInit ==
    /\ TreeIdle
    /\ ArmIdle
    /\ GroupIdle
    /\ KfIdle
    /\ ExecIdle
    /\ MoreIdle
    /\ combine_vertices = FALSE
    /\ b_obj = "None"
    /\ b_mesh = EmptyMesh
    /\ mesh_pc = "idle"
    /\ call = NoCall

FileFrame ==
    UNCHANGED <<meshVars, treeVars, armVars, group_call, execVars, kf_call, ext_call,
                roots_run, dedup_run, skin_run, bone_call, flip_call, roll_call, name_call, kind_run, branch_run, reach_run>>

\* execute is called with its file settings
ExecuteFiles ==
    /\ file_run.pc = "idle"
    /\ \E c \in FileSettings :
          file_run' = [pc |-> "open", cur |-> 1, configured |-> c,
                       handle |-> [f \in {"nif", "kf", "egm"} |-> "none"],
                       version |-> [f \in {"nif", "kf", "egm"} |-> NotInspected],
                       was_read |-> [f \in {"nif", "kf", "egm"} |-> FALSE],
                       pending |-> "", roots |-> 0, error |-> "", log |-> << >>]
    /\ FileFrame

\* lines 151, 174-180, 198-203: open(filepath, "rb"), when the file is given
OpenFile ==
    /\ file_run.pc = "open"
    /\ LET f == NifFiles[file_run.cur]
       IN  IF f \notin file_run.configured
           THEN file_run' = AfterFile(file_run)
           ELSE \/ file_run' = [file_run EXCEPT !.pc = "inspect", !.handle[f] = "open",
                                                !.log = Append(@, <<"open", f>>)]
                \/ file_run' = Raise(file_run, "IOError")
    /\ FileFrame

\* lines 153-166: data.inspect(file), then the test of data.version
Inspect ==
    /\ file_run.pc = "inspect"
    /\ LET f == NifFiles[file_run.cur]
       IN  \/ \E v \in InspectedVersions :
                file_run' = [file_run EXCEPT
                                !.version[f] = v,
                                !.log = Append(@, <<"inspect", f>>),
                                !.pc = IF v >= 0 THEN "read" ELSE "finally",
                                !.pending = IF v >= 0 THEN "" ELSE "NifError"]
           \/ file_run' = [file_run EXCEPT !.log = Append(@, <<"inspect", f>>),
                                           !.pc = "finally", !.pending = "IOError"]
    /\ FileFrame

\* lines 161, 187, 211: data.read(file)
Read ==
    /\ file_run.pc = "read"
    /\ LET f == NifFiles[file_run.cur]
       IN  \/ file_run' = [file_run EXCEPT !.was_read[f] = TRUE, !.pc = "finally",
                                           !.log = Append(@, <<"read", f>>)]
           \/ file_run' = [file_run EXCEPT !.pc = "finally", !.pending = "ValueError",
                                           !.log = Append(@, <<"read", f>>)]
    /\ FileFrame

\* lines 167-169: finally: file.close(); an exception in flight goes on
CloseFile ==
    /\ file_run.pc = "finally"
    /\ LET f == NifFiles[file_run.cur]
           closed == [file_run EXCEPT !.handle[f] = Finally(@),
                                      !.log = Append(@, <<"close", f>>)]
       IN  file_run' = IF file_run.pending # ""
                       THEN Raise(closed, file_run.pending)
                       ELSE AfterFile(closed)
    /\ FileFrame

\* lines 264-297: the loop over self.data.roots; import_root may raise
ImportRootBlock ==
    /\ file_run.pc = "import"
    /\ \/ /\ file_run.roots < MaxFileRoots
          /\ \/ file_run' = [file_run EXCEPT !.roots = @ + 1,
                                             !.log = Append(@, <<"import_root", "nif">>)]
             \/ file_run' = Raise(file_run, "NifError")
       \/ file_run' = [file_run EXCEPT !.pc = "done"]
    /\ FileFrame

FilesNext ==
    ExecuteFiles \/ OpenFile \/ Inspect \/ Read \/ CloseFile \/ ImportRootBlock

SpecFiles == FilesInit /\ [][FilesNext]_vars

FileRunning == file_run.pc # "idle"

\* the positions of an event in the log
EventsAt(event) == {i \in DOMAIN file_run.log : file_run.log[i] = event}

\* C22: every file that is given is inspected, read (only after inspect gave
\* a version >= 0) and closed before the first root block is imported; a
\* file whose inspection or reading failed is closed as well, and then no
\* root block is imported
C22_FilesReadBeforeImport ==
    FileRunning =>
        /\ \A f \in {"nif", "kf", "egm"} :
              /\ file_run.was_read[f] => file_run.version[f] >= 0
              /\ EventsAt(<<"read", f>>) # {} => file_run.version[f] >= 0
              /\ file_run.pc \in {"import", "done", "failed"} =>
                    file_run.handle[f] # "open"
              /\ (file_run.roots > 0 /\ f \in file_run.configured) =>
                    /\ file_run.was_read[f]
                    /\ file_run.handle[f] = "closed"
                    /\ \A i \in EventsAt(<<"import_root", "nif">>) :
                          \A j \in EventsAt(<<"close", f>>) \cup EventsAt(<<"read", f>>)
                                   \cup EventsAt(<<"inspect", f>>) : j < i
        /\ (file_run.pc = "failed"
            /\ \E f \in file_run.configured : ~file_run.was_read[f]) =>
              file_run.roots = 0

\* the keyframe file failed to read after the NIF file was read: both are
\* closed and no root block was imported
C22_Witness ==
    /\ FileRunning
    /\ file_run.pc = "failed"
    /\ file_run.was_read["nif"]
    /\ file_run.version["kf"] >= 0 /\ ~file_run.was_read["kf"]
    /\ file_run.handle["nif"] = "closed" /\ file_run.handle["kf"] = "closed"
    /\ file_run.roots = 0

-----------------------------------------------------------------------------
(* vec_roll_to_mat3 and mat3_to_vec_roll, in exact arithmetic *)

MaxCoord == 6

\* rational numbers <<numerator, denominator>>, denominator > 0, in lowest terms
RECURSIVE Gcd(_, _)
Gcd(a, b) == IF b = 0 THEN a ELSE Gcd(b, a % b)

AbsInt(a) == IF a < 0 THEN 0 - a ELSE a

Rat(n, d) ==
    LET g == Gcd(AbsInt(n), AbsInt(d))
    IN  IF d < 0 THEN <<(0 - n) \div g, (0 - d) \div g>> ELSE <<n \div g, d \div g>>

RInt(n) == <<n, 1>>
RAdd(a, b) == Rat(a[1] * b[2] + b[1] * a[2], a[2] * b[2])
RNeg(a) == <<0 - a[1], a[2]>>
RSub(a, b) == RAdd(a, RNeg(b))
RMul(a, b) == Rat(a[1] * b[1], a[2] * b[2])
RDiv(a, b) == Rat(a[1] * b[2], a[2] * b[1])
RGreater(a, b) == a[1] * b[2] > b[1] * a[2]

\* a > 1 / n, for a threshold <<1, n>>
AboveThreshold(a, threshold) == a[1] > 0 /\ (a[2] \div a[1]) < threshold[2]

\* THETA_THRESHOLD_NEGY = 1.0e-9 and THETA_THRESHOLD_NEGY_CLOSE = 1.0e-5
THETA_THRESHOLD_NEGY == <<1, 1000000000>>
THETA_THRESHOLD_NEGY_CLOSE == <<1, 100000>>

\* mathutils.Matrix().to_3x3(): the identity, as rows
Identity3 ==
    <<<<RInt(1), RInt(0), RInt(0)>>, <<RInt(0), RInt(1), RInt(0)>>,
      <<RInt(0), RInt(0), RInt(1)>>>>

\* the matrix product a * b
MatMul(a, b) ==
    [i \in 1..3 |-> [j \in 1..3 |->
        RAdd(RAdd(RMul(a[i][1], b[1][j]), RMul(a[i][2], b[2][j])), RMul(a[i][3], b[3][j]))]]

Det2(m, r1, r2, c1, c2) == RSub(RMul(m[r1][c1], m[r2][c2]), RMul(m[r1][c2], m[r2][c1]))

Determinant(m) ==
    RAdd(RSub(RMul(m[1][1], Det2(m, 2, 3, 2, 3)), RMul(m[1][2], Det2(m, 2, 3, 1, 3))),
         RMul(m[1][3], Det2(m, 2, 3, 1, 2)))

Others(i) == IF i = 1 THEN <<2, 3>> ELSE IF i = 2 THEN <<1, 3>> ELSE <<1, 2>>

\* the cofactor of the entry in row i, column j
Cofactor(m, i, j) ==
    LET minor == Det2(m, Others(i)[1], Others(i)[2], Others(j)[1], Others(j)[2])
    IN  IF (i + j) % 2 = 0 THEN minor ELSE RNeg(minor)

\* mat.inverted() of a matrix that is not singular
Inverted(m) ==
    [i \in 1..3 |-> [j \in 1..3 |-> RDiv(Cofactor(m, j, i), Determinant(m))]]

\* the square root of a perfect square
IntSqrt(s) == CHOOSE n \in 0..s : n * n = s

\* vec.normalized() of a vector of whole length
Normalized(vec) ==
    LET n == IntSqrt(vec[1] * vec[1] + vec[2] * vec[2] + vec[3] * vec[3])
    IN  <<Rat(vec[1], n), Rat(vec[2], n), Rat(vec[3], n)>>

\* a symmetry by the Y axis
MirrorY ==
    <<<<RInt(1), RInt(0), RInt(0)>>, <<RInt(0), RInt(0 - 1), RInt(0)>>,
      <<RInt(0), RInt(0), RInt(1)>>>>

\* lines 89-92: "If nor is -Y, simple symmetry by Z axis"
SymmetryByZ ==
    <<<<RInt(0 - 1), RInt(0), RInt(0)>>, <<RInt(0), RInt(0 - 1), RInt(0)>>,
      <<RInt(0), RInt(0), RInt(1)>>>>

\* lines 75-79: "If nor is far enough from -Y, apply the general case"
GeneralCase(nor, theta) ==
    <<<<RSub(RInt(1), RDiv(RMul(nor[1], nor[1]), theta)), nor[1],
        RDiv(RMul(RNeg(nor[1]), nor[3]), theta)>>,
      <<RNeg(nor[1]), nor[2], RNeg(nor[3])>>,
      <<RDiv(RMul(RNeg(nor[1]), nor[3]), theta), nor[3],
        RSub(RInt(1), RDiv(RMul(nor[3], nor[3]), theta))>>>>

\* lines 81-86: "If nor is too close to -Y, apply the special case"
SpecialCase(nor) ==
    LET theta == RAdd(RMul(nor[1], nor[1]), RMul(nor[3], nor[3]))
        m00 == RDiv(RMul(RAdd(nor[1], nor[3]), RSub(nor[1], nor[3])), RNeg(theta))
        m02 == RDiv(RMul(RInt(2), RMul(nor[1], nor[3])), theta)
    IN  <<<<m00, nor[1], m02>>,
          <<RNeg(nor[1]), nor[2], RNeg(nor[3])>>,
          <<m02, nor[3], RNeg(m00)>>>>

\* the roll angles of the model, in thousandths of a radian: 0 and pi
Pi == 3142

\* mathutils.Matrix.Rotation(roll, 3, nor) for roll 0 and for a half turn
\* (2 * nor * nor^T - 1)
Rotation(roll, nor) ==
    IF roll = 0 THEN Identity3
    ELSE [i \in 1..3 |-> [j \in 1..3 |->
             RSub(RMul(RInt(2), RMul(nor[i], nor[j])), Identity3[i][j])]]

\* vec_roll_to_mat3(vec, roll)
vec_roll_to_mat3(vec, roll) ==
    LET nor == Normalized(vec)
        theta == RAdd(RInt(1), nor[2])
        bMatrix ==
            IF \/ AboveThreshold(theta, THETA_THRESHOLD_NEGY_CLOSE)
               \/ /\ (nor[1] # RInt(0) \/ nor[3] # RInt(0))
                  /\ AboveThreshold(theta, THETA_THRESHOLD_NEGY)
            THEN IF AboveThreshold(theta, THETA_THRESHOLD_NEGY_CLOSE)
                 THEN GeneralCase(nor, theta)
                 ELSE SpecialCase(nor)
            ELSE SymmetryByZ
    IN  MatMul(Rotation(roll, nor), bMatrix)

\* math.atan2(y, x) on the axes; None elsewhere
Atan2(y, x) ==
    IF y = RInt(0) /\ RGreater(x, RInt(0)) THEN 0
    ELSE IF y = RInt(0) /\ RGreater(RInt(0), x) THEN Pi
    ELSE None

\* mat.col[1] of a matrix whose second column has length 1
Col1(mat) == <<mat[1][2], mat[2][2], mat[3][2]>>

\* a vector of rationals of length 1 as a vector of whole numbers over one
\* denominator
Whole(vec) ==
    LET d == vec[1][2] * vec[2][2] * vec[3][2]
    IN  <<vec[1][1] * (d \div vec[1][2]), vec[2][1] * (d \div vec[2][2]),
          vec[3][1] * (d \div vec[3][2])>>

\* mat3_to_vec_roll(mat)
mat3_to_vec_roll(mat) ==
    LET vec == Col1(mat)
        vecmat == vec_roll_to_mat3(Whole(vec), 0)
        rollmat == MatMul(Inverted(vecmat), mat)
    IN  [vec |-> vec, roll |-> Atan2(rollmat[1][3], rollmat[3][3])]

\* the directions of the model: vectors of whole coordinates and whole length
Directions ==
    {v \in (0 - MaxCoord..MaxCoord) \X (0 - MaxCoord..MaxCoord) \X (0 - MaxCoord..MaxCoord) :
        /\ v # <<0, 0, 0>>
        /\ \E n \in 1..(2 * MaxCoord) : n * n = v[1] * v[1] + v[2] * v[2] + v[3] * v[3]}

RollInit ==
    /\ TreeIdle
    /\ ArmIdle
    /\ GroupIdle
    /\ KfIdle
    /\ ExecIdle
    /\ MoreIdle
    /\ combine_vertices = FALSE
    /\ b_obj = "None"
    /\ b_mesh = EmptyMesh
    /\ mesh_pc = "idle"
    /\ call = NoCall

\* the matrix of a bone direction, and the direction and roll read back from it
RollRead(vec, roll, mat) ==
    roll_call' = [op |-> "vec_roll_to_mat3", vec |-> vec, roll |-> roll, mat |-> mat,
                  back |-> mat3_to_vec_roll(mat)]

VecRollToMat3 ==
    /\ roll_call = NoRollCall
    /\ \E vec \in Directions, roll \in {0, Pi} :
          RollRead(vec, roll, vec_roll_to_mat3(vec, roll))
    /\ UNCHANGED <<meshVars, treeVars, armVars, group_call, execVars, kf_call, ext_call,
                   roots_run, dedup_run, skin_run, bone_call, flip_call, file_run, name_call, kind_run, branch_run, reach_run>>

SpecRoll == RollInit /\ [][VecRollToMat3]_vars

Transposed(m) == [i \in 1..3 |-> [j \in 1..3 |-> m[j][i]]]

\* columns of unit length, orthogonal to each other, determinant +1
Orthonormal(m) ==
    /\ MatMul(Transposed(m), m) = Identity3
    /\ Determinant(m) = RInt(1)

\* the direction is (0, -1, 0)
IsNegY(vec) == vec[1] = 0 /\ vec[3] = 0 /\ vec[2] < 0

\* C23: for a direction v other than (0,-1,0), mat3_to_vec_roll of
\* vec_roll_to_mat3(v, 0) is (v normalized, roll 0); for v = (0,-1,0) the
\* matrix of vec_roll_to_mat3 is orthonormal with determinant +1
C23_VecRollRoundTrip ==
    (roll_call.op = "vec_roll_to_mat3" /\ roll_call.roll = 0) =>
        /\ ~IsNegY(roll_call.vec) =>
              /\ roll_call.back.vec = Normalized(roll_call.vec)
              /\ roll_call.back.roll = 0
        /\ IsNegY(roll_call.vec) => Orthonormal(roll_call.mat)

\* the direction (0,-1,0) with roll 0: the matrix of the fallback branch
C23_Witness ==
    /\ roll_call.op = "vec_roll_to_mat3" /\ roll_call.roll = 0
    /\ roll_call.vec = <<0, 0 - 1, 0>>
    /\ roll_call.mat = SymmetryByZ

\* every matrix of the model is orthonormal, and a half turn of roll is read
\* back as a half turn
RollMatrices ==
    roll_call.op = "vec_roll_to_mat3" =>
        /\ Orthonormal(roll_call.mat)
        /\ roll_call.back.vec = Normalized(roll_call.vec)
        /\ roll_call.back.roll = roll_call.roll

-----------------------------------------------------------------------------
(* Bone names: from the NIF namespace to Blender's and back *)

\* the bone names of a NIF file in the modelled runs: a side prefix or none,
\* a stem, and a suffix that may carry a side of its own
NifPrefixes ==
    {Bip01_L, Bip01_R, Bip01 \o <<" ">>, NPC \o <<" ", "L", " ">>,
     NPC \o <<" ", "R", " ">>, NPC \o <<" ">>, << >>}

NifStems == {<<"a">>, <<"T">>}

NifSuffixes ==
    {<< >>, <<".", "L">>, <<".", "R">>, <<" ", "[", "L", "a", "]">>,
     <<" ", "[", "R", "a", "]">>, <<" ", "[", "a", "]">>}

NifBoneNames == {p \o s \o x : p \in NifPrefixes, s \in NifStems, x \in NifSuffixes}

NamesInit ==
    /\ TreeIdle
    /\ ArmIdle
    /\ GroupIdle
    /\ KfIdle
    /\ ExecIdle
    /\ MoreIdle
    /\ combine_vertices = FALSE
    /\ b_obj = "None"
    /\ b_mesh = EmptyMesh
    /\ mesh_pc = "idle"
    /\ call = NoCall

NamesFrame ==
    UNCHANGED <<meshVars, treeVars, armVars, group_call, execVars, kf_call, ext_call,
                roots_run, dedup_run, skin_run, bone_call, flip_call, file_run, roll_call, kind_run, branch_run, reach_run>>

\* get_bone_name_for_blender on the name of a first bone
GetBoneNameForBlender ==
    /\ name_call = NoNameCall
    /\ \E n \in NifBoneNames :
          name_call' = [op |-> "blender", names |-> <<n>>,
                        blender |-> <<get_bone_name_for_blender(n)>>, nif |-> << >>]
    /\ NamesFrame

\* get_bone_name_for_blender on the name of another bone of the file
GetBoneNameForBlenderAgain ==
    /\ name_call # NoNameCall
    /\ name_call.op = "blender"
    /\ Len(name_call.names) = 1
    /\ \E n \in NifBoneNames \ {name_call.names[1]} :
          name_call' = [name_call EXCEPT
                          !.names = Append(@, n),
                          !.blender = Append(@, get_bone_name_for_blender(n))]
    /\ NamesFrame

\* get_bone_name_for_nif on the Blender names obtained
GetBoneNameForNif ==
    /\ name_call # NoNameCall
    /\ name_call.op = "blender"
    /\ name_call' = [name_call EXCEPT
                       !.op = "nif",
                       !.nif = [i \in 1..Len(name_call.blender) |->
                                  get_bone_name_for_nif(name_call.blender[i])]]
    /\ NamesFrame

NamesNext == GetBoneNameForBlender \/ GetBoneNameForBlenderAgain \/ GetBoneNameForNif

SpecNames == NamesInit /\ [][NamesNext]_vars

NamesConverted == name_call # NoNameCall /\ name_call.op = "nif"

\* C30: converting a NIF bone name to Blender's namespace and back gives the
\* name again, and distinct NIF names have distinct Blender names
C30_BoneNameRoundTrip ==
    NamesConverted =>
        /\ \A i \in 1..Len(name_call.names) : name_call.nif[i] = name_call.names[i]
        /\ \A i, j \in 1..Len(name_call.names) :
              name_call.blender[i] = name_call.blender[j] => i = j

\* the round trip of the names of the form 'Bip01 L xxx' and 'Bip01 R xxx'
BipRoundTrip ==
    NamesConverted =>
        \A i \in 1..Len(name_call.names) :
            (StartsWith(name_call.names[i], Bip01_L) \/ StartsWith(name_call.names[i], Bip01_R))
                => name_call.nif[i] = name_call.names[i]

-----------------------------------------------------------------------------
(* execute over root blocks of several block types *)

MaxKindRoots == 2

\* the block types of a root: a NiNode, a NiCamera, a NiPhysXProp, and a block
\* type import_root has no branch for
RootKinds == {"NiNode", "NiCamera", "NiPhysXProp", "NiSourceTexture"}

\* a root block: its type, the number of its children (geometries with their
\* data, for a NiNode), whether it has an extra_data_list and whether a
\* BSInvMarker is in that list
KindRoots ==
    {r \in [kind : RootKinds, children : 0..1, has_extra : BOOLEAN, inv_marker : BOOLEAN] :
        /\ (r.children > 0 => r.kind = "NiNode")
        /\ (r.inv_marker => r.has_extra)}

KindRootLists == UNION {[1..n -> KindRoots] : n \in 1..MaxKindRoots}

\* NifImport.__init__, line 109; line 359 replaces it by 'BSFadeNode'
root_ninode == "NiNode"

\* the truth value of a Python str
Truthy(text) == text # ""

\* lines 391-417: the branch import_root takes for the root, as the warning
\* it logs ("" for none) and whether it binds b_obj
RootBranch(root) ==
    IF root.kind = "NiNode"
    THEN [warning |-> "", bound |-> root.children > 0]
    ELSE IF root.kind = "NiCamera"
    THEN [warning |-> "Skipped NiCamera root", bound |-> FALSE]
    ELSE IF root.kind = "NiPhysXProp"
    THEN [warning |-> "Skipped NiPhysXProp root", bound |-> FALSE]
    ELSE [warning |-> "Skipped unsupported root block type", bound |-> FALSE]

\* lines 419-431: what follows the branches reads b_obj
RootTrailer(root, bound) ==
    IF root.has_extra /\ root.inv_marker /\ ~bound THEN "UnboundLocalError"
    ELSE IF Truthy(root_ninode) /\ ~bound THEN "UnboundLocalError"
    ELSE ""

\* import_root on a root that is no armature root, grouping node or geometry
ImportRootOfKind(root, log) ==
    LET br == RootBranch(root)
    IN  [log |-> IF br.warning = "" THEN log ELSE Append(log, br.warning),
         bound |-> br.bound,
         error |-> RootTrailer(root, br.bound)]

KindInit ==
    /\ TreeIdle
    /\ ArmIdle
    /\ GroupIdle
    /\ KfIdle
    /\ ExecIdle
    /\ MoreIdle
    /\ combine_vertices = FALSE
    /\ b_obj = "None"
    /\ b_mesh = EmptyMesh
    /\ mesh_pc = "idle"
    /\ call = NoCall

KindFrame ==
    UNCHANGED <<meshVars, treeVars, armVars, group_call, execVars, kf_call, ext_call,
                roots_run, dedup_run, skin_run, bone_call, flip_call, file_run, roll_call,
                name_call, branch_run, reach_run>>

\* execute, lines 151-162: the file is read
ReadKindRoots ==
    /\ kind_run.pc = ""
    /\ \E roots \in KindRootLists :
          kind_run' = [kind_run EXCEPT !.pc = "roots", !.roots = roots, !.next = 1]
    /\ KindFrame

\* execute, lines 264-300: the next root block of the file
ExecuteRootOfKind ==
    /\ kind_run.pc = "roots"
    /\ LET r == ImportRootOfKind(kind_run.roots[kind_run.next], kind_run.log)
           pc == AfterRoot(r.error, kind_run.next, Len(kind_run.roots))
       IN  kind_run' = [kind_run EXCEPT
                          !.log = IF pc = "roots" THEN r.log ELSE Append(r.log, "Finished"),
                          !.bound = r.bound,
                          !.error = r.error,
                          !.pc = pc,
                          !.next = IF r.error = "" THEN @ + 1 ELSE @]
    /\ KindFrame

KindNext == ReadKindRoots \/ ExecuteRootOfKind

SpecKinds == KindInit /\ [][KindNext]_vars

\* a camera root, a PhysX-prop root, a root of another unsupported type, or a
\* NiNode root without children
SkippedRoot(root) == root.kind # "NiNode" \/ root.children = 0

\* C27: import_root on a camera root, a PhysX-prop root, a root of another
\* unsupported type or a NiNode root without children returns without raising,
\* and execute goes on with the next root block
C27_SkippedRootReturns ==
    kind_run.pc = "raised" => ~SkippedRoot(kind_run.roots[kind_run.next])

\* the warning of the branch is logged before the exception leaves execute
SkippedRootWarned ==
    (kind_run.pc = "raised" /\ kind_run.roots[kind_run.next].kind # "NiNode") =>
        /\ Len(kind_run.log) >= 2
        /\ kind_run.log[Len(kind_run.log) - 1]
              = RootBranch(kind_run.roots[kind_run.next]).warning

\* a root whose children were imported is followed by the next root
ImportedRootReturns ==
    kind_run.pc = "raised" => ~kind_run.bound

-----------------------------------------------------------------------------
(* import_branch on a node that is neither an armature root nor a bone *)

MaxBranchChildren == 3

\* lines 567 and 622: a group of more than this many geometries is not merged
MaxGroupSize == 16

\* a child of the node: a geometry named after the node, a geometry with a
\* name of its own, or a plain node without children
BranchChildKinds == {"grouped", "geometry", "node"}

\* the tree of a node named "a" over the children given by their kinds
BranchTree(kinds) ==
    [kind |-> <<"NiNode">> \o
                [i \in 1..Len(kinds) |->
                   IF kinds[i] = "node" THEN "NiNode" ELSE "NiTriBasedGeom"],
     children |-> <<[i \in 1..Len(kinds) |-> i + 1]>> \o [i \in 1..Len(kinds) |-> << >>],
     name |-> <<<<"a">>>> \o
                [i \in 1..Len(kinds) |->
                   IF kinds[i] = "grouped" THEN <<"x", "a">> ELSE <<"c">>],
     skin |-> [i \in 1..(Len(kinds) + 1) |-> NoSkin]]

\* the inputs of a run: the tree, the blocks with a NiGeomMorpherController,
\* the blocks with has_bounding_box, and the two import properties
BranchInputs ==
    {[tree |-> BranchTree(kinds), morph |-> morph, bbox |-> bbox,
      animation |-> animation, combine |-> combine] :
        kinds \in SeqsUpTo(BranchChildKinds, MaxBranchChildren),
        morph \in SUBSET (2..(MaxBranchChildren + 1)),
        bbox \in {{}, {Root}}, animation \in BOOLEAN, combine \in BOOLEAN}

\* a node over more geometries named after it than a mesh may group
LargeGroupInputs ==
    {[tree |-> BranchTree([i \in 1..(MaxGroupSize + 1) |-> "grouped"]), morph |-> {},
      bbox |-> bbox, animation |-> animation, combine |-> combine] :
        bbox \in {{}, {Root}}, animation \in BOOLEAN, combine \in BOOLEAN}

\* list.remove(x): the list without the first occurrence of x
RemoveFirst(s, x) ==
    LET i == CHOOSE k \in DOMAIN s : s[k] = x /\ \A h \in DOMAIN s : s[h] = x => k <= h
    IN  SubSeq(s, 1, i - 1) \o SubSeq(s, i + 1, Len(s))

RECURSIVE RemoveMorphs(_, _, _)
\* lines 551-555: "for child in geom_group: if find_controller(child, ...):
\* geom_group.remove(child)"; the iterator of the list goes on at position
\* i + 1 of the list as it is after the removal
RemoveMorphs(geom_group, i, morph) ==
    IF i >= Len(geom_group) THEN geom_group
    ELSE IF geom_group[i + 1] \in morph
    THEN RemoveMorphs(RemoveFirst(geom_group, geom_group[i + 1]), i + 1, morph)
    ELSE RemoveMorphs(geom_group, i + 1, morph)

\* lines 556-561: the node is imported as an empty (or a bounding box)
AsEmpty(geom_group, combine) ==
    ~(geom_group # << >> \/ combine) \/ Len(geom_group) > MaxGroupSize

NewObject(niBlock, type, merged) ==
    [block |-> niBlock, type |-> type, parent |-> None, merged |-> merged]

RECURSIVE SetParent(_, _, _)
\* lines 671-675: "for (n_child, b_child) in object_children: b_child.parent = b_obj"
SetParent(objects, b_children_list, b_node) ==
    IF b_children_list = << >> THEN objects
    ELSE SetParent([objects EXCEPT ![Head(b_children_list)].parent = b_node],
                   Tail(b_children_list), b_node)

RECURSIVE import_branch(_, _, _, _)
RECURSIVE ImportBranchChildren(_, _, _, _, _, _)
\* import_branch(niBlock), lines 477-505 for a geometry and 506-780 for a node;
\* st.ret is the object returned, as its position in st.objects
import_branch(t, niBlock, inp, st) ==
    IF IsNiTriBasedGeom(t, niBlock)
    THEN [st EXCEPT !.objects = Append(@, NewObject(niBlock, "mesh", <<niBlock>>)),
                    !.ret = Len(st.objects) + 1]
    ELSE LET grouped == is_grouping_node(t, inp.combine, niBlock)
             geom_group == IF inp.animation THEN RemoveMorphs(grouped, 0, inp.morph)
                           ELSE grouped
             st1 == [st EXCEPT !.filtered = Append(@, [block |-> niBlock, group |-> geom_group])]
         IN  IF AsEmpty(geom_group, inp.combine)
             THEN ImportBranchChildren(t, t.children[niBlock], inp,
                      [st1 EXCEPT !.objects =
                          Append(@, NewObject(niBlock,
                                              IF niBlock \in inp.bbox THEN "bounding_box"
                                              ELSE "empty", << >>))],
                      Len(st.objects) + 1, << >>)
             ELSE IF geom_group = << >>
             THEN [st1 EXCEPT !.error = "AttributeError"]
             ELSE ImportBranchChildren(t,
                      FilterSeq(t.children[niBlock],
                                Range(t.children[niBlock]) \ Range(geom_group)),
                      inp,
                      [st1 EXCEPT !.objects = Append(@, NewObject(niBlock, "mesh", geom_group))],
                      Len(st.objects) + 1, << >>)

\* lines 617-625 and 671-675: the children outside the group, each through
\* import_branch, then parented to the object of the node
ImportBranchChildren(t, children, inp, st, b_node, b_children_list) ==
    IF st.error # "" THEN st
    ELSE IF children = << >>
    THEN [st EXCEPT !.objects = SetParent(@, b_children_list, b_node), !.ret = b_node]
    ELSE LET s1 == import_branch(t, Head(children), inp, st)
         IN  ImportBranchChildren(t, Tail(children), inp, s1, b_node,
                                  Append(b_children_list, s1.ret))

BranchInit ==
    /\ TreeIdle
    /\ ArmIdle
    /\ GroupIdle
    /\ KfIdle
    /\ ExecIdle
    /\ MoreIdle
    /\ combine_vertices = FALSE
    /\ b_obj = "None"
    /\ b_mesh = EmptyMesh
    /\ mesh_pc = "idle"
    /\ call = NoCall

\* import_root, line 407: import_branch on a child of the root
ImportBranch ==
    /\ branch_run = NoBranchRun
    /\ \E inp \in BranchInputs \cup LargeGroupInputs :
          LET r == import_branch(inp.tree, Root, inp,
                                 [objects |-> << >>, filtered |-> << >>, error |-> "", ret |-> None])
          IN  branch_run' = [op |-> "import_branch", inp |-> inp, objects |-> r.objects,
                             filtered |-> r.filtered, error |-> r.error]
    /\ UNCHANGED <<meshVars, treeVars, armVars, group_call, execVars, kf_call, ext_call,
                   roots_run, dedup_run, skin_run, bone_call, flip_call, file_run, roll_call,
                   name_call, kind_run, reach_run>>

SpecBranch == BranchInit /\ [][ImportBranch]_vars

BranchImported == branch_run # NoBranchRun

\* the objects made for a block
ObjectsOf(niBlock) ==
    {k \in DOMAIN branch_run.objects : branch_run.objects[k].block = niBlock}

\* the children of the node that carry a geometry-morph controller
MorphChildren ==
    {c \in Range(branch_run.inp.tree.children[Root]) :
        IsNiTriBasedGeom(branch_run.inp.tree, c) /\ c \in branch_run.inp.morph}

\* C25: with animation import enabled no child with a geometry-morph
\* controller remains in the filtered geometry group, and each such child is
\* imported as an object of its own
C25_MorphChildrenLeaveGroup ==
    (BranchImported /\ branch_run.inp.animation) =>
        /\ \A i \in DOMAIN branch_run.filtered :
              Range(branch_run.filtered[i].group) \cap branch_run.inp.morph = {}
        /\ branch_run.error = "" =>
              \A c \in MorphChildren :
                  \E k \in ObjectsOf(c) : branch_run.objects[k].merged = <<c>>

\* the geometry group of the node as is_grouping_node returned it
GroupedChildren ==
    is_grouping_node(branch_run.inp.tree, branch_run.inp.combine, Root)

\* no child with a morph controller directly follows another one in the group
MorphChildrenApart ==
    \A i \in 1..(Len(GroupedChildren) - 1) :
        ~(GroupedChildren[i] \in branch_run.inp.morph
          /\ GroupedChildren[i + 1] \in branch_run.inp.morph)

\* the filter is complete when the morph children of the group are apart
MorphChildrenApartLeaveGroup ==
    (BranchImported /\ branch_run.inp.animation /\ MorphChildrenApart) =>
        \A i \in DOMAIN branch_run.filtered :
            Range(branch_run.filtered[i].group) \cap branch_run.inp.morph = {}

\* the nodes whose geometry group, after the filter, is empty or too large
UngroupedNodes ==
    {i \in DOMAIN branch_run.filtered :
        \/ branch_run.filtered[i].group = << >>
        \/ Len(branch_run.filtered[i].group) > MaxGroupSize}

\* the node of entry i of the filtered groups is an empty (a bounding box when
\* it has one) and every child of it is an object of its own, parented to it
ImportedAsEmpty(i) ==
    LET node == branch_run.filtered[i].block
    IN  \E k \in ObjectsOf(node) :
           /\ branch_run.objects[k].type =
                 (IF node \in branch_run.inp.bbox THEN "bounding_box" ELSE "empty")
           /\ \A c \in Range(branch_run.inp.tree.children[node]) :
                 \E e \in ObjectsOf(c) : branch_run.objects[e].parent = k

\* C26: a node without grouped geometry children, or with more than 16, is
\* imported as an empty, or as a bounding box when it has one, with shape
\* combination enabled or disabled, and its children are imported
\* independently and parented to it
C26_UngroupedNodeIsEmpty ==
    BranchImported =>
        /\ branch_run.error = ""
        /\ \A i \in UngroupedNodes : ImportedAsEmpty(i)

\* with shape combination disabled every node is imported as an empty
UncombinedNodeIsEmpty ==
    (BranchImported /\ ~branch_run.inp.combine) =>
        /\ branch_run.error = ""
        /\ \A i \in UngroupedNodes : ImportedAsEmpty(i)

\* a group of more than 16 geometries is imported as an empty as well
LargeGroupIsEmpty ==
    (BranchImported /\ branch_run.inp \in LargeGroupInputs) =>
        /\ branch_run.error = ""
        /\ ImportedAsEmpty(1)

-----------------------------------------------------------------------------
(* import_branch on the bones of the tree, after the marking *)

\* the blocks in the order import_branch comes to them: a block, then its children
WalkOrder == Tree(n_tree, Root)

\* the place of a block in the walk
WalkPos(niBlock) == CHOOSE i \in DOMAIN WalkOrder : WalkOrder[i] = niBlock

\* lines 520-540: an armature root is taken as an armature, whether or not it
\* is a bone as well
IsBranchBone(niBlock) ==
    /\ IsNiNode(n_tree, niBlock)
    /\ ~is_armature_root(n_tree, dict_armatures, niBlock)
    /\ is_bone(dict_armatures, niBlock)

\* the bones import_branch has still to come to, in the order of its walk
PendingBones ==
    FilterSeq(WalkOrder,
              {n \in DOMAIN n_tree.kind : IsBranchBone(n) /\ ~InList(n, reach_run.done)})

RECURSIVE BranchArmature(_)
\* n_armature as import_branch hands it down (lines 618-621): the closest
\* armature root above the block, None when there is none
BranchArmature(niBlock) ==
    IF n_parent[niBlock] = None THEN None
    ELSE IF is_armature_root(n_tree, dict_armatures, n_parent[niBlock])
    THEN n_parent[niBlock]
    ELSE BranchArmature(n_parent[niBlock])

\* b_armature.data.bones.keys(): of the armature import_armature made, or of
\* the selected armature (line 528)
ArmatureBoneNames(n_armature) ==
    IF skeleton = "GEOMETRY_ONLY" THEN Range(selected_objects.bones)
    ELSE BoneNames(b_armatures[n_armature].bones)

\* line 542: b_armature.data.bones[self.dict_names[niBlock]]
BoneLookup(niBlock) ==
    IF BranchArmature(niBlock) = None THEN "AttributeError"
    ELSE IF niBlock \notin DOMAIN dict_names THEN "KeyError"
    ELSE IF dict_names[niBlock] \notin ArmatureBoneNames(BranchArmature(niBlock))
    THEN "KeyError"
    ELSE ""

\* lines 547-598 on a node that is no armature root and no bone: the branch
\* that joins geometries fails on an empty group
PlainNodeFails(niBlock) ==
    /\ IsNiNode(n_tree, niBlock)
    /\ ~is_armature_root(n_tree, dict_armatures, niBlock)
    /\ ~is_bone(dict_armatures, niBlock)
    /\ ~AsEmpty(is_grouping_node(n_tree, combine_shapes, niBlock), combine_shapes)
    /\ is_grouping_node(n_tree, combine_shapes, niBlock) = << >>

\* the walk comes as far as the block
WalkReaches(niBlock) ==
    \A i \in 1..(WalkPos(niBlock) - 1) : ~PlainNodeFails(WalkOrder[i])

\* import_branch on the next armature root of the walk
ImportArmatureInWalk ==
    /\ arm_pc = "marked"
    /\ reach_run.error = ""
    /\ PendingArmatures # << >>
    /\ WalkReaches(Head(PendingArmatures))
    /\ (PendingBones # << >> =>
           WalkPos(Head(PendingArmatures)) < WalkPos(Head(PendingBones)))
    /\ ImportArmature

\* import_branch on the next bone of the walk, lines 540-546
ImportBranchBone ==
    /\ arm_pc = "marked"
    /\ reach_run.error = ""
    /\ PendingBones # << >>
    /\ WalkReaches(Head(PendingBones))
    /\ (skeleton # "GEOMETRY_ONLY" =>
           \A a \in Range(PendingArmatures) : WalkPos(Head(PendingBones)) < WalkPos(a))
    /\ reach_run' = [done |-> Append(reach_run.done, Head(PendingBones)),
                     error |-> BoneLookup(Head(PendingBones))]
    /\ UNCHANGED <<meshVars, treeVars, armVars, group_call, execVars, kf_call, ext_call,
                   roots_run, dedup_run, skin_run, bone_call, flip_call, file_run, roll_call,
                   name_call, kind_run, branch_run>>

ReachNext == ReadFile \/ MarkArmaturesBones \/ ImportArmatureInWalk \/ ImportBranchBone

SpecReach == ArmInit /\ [][ReachNext]_vars

\* the name table holds a name for the bone and the armature of its branch
\* has a bone of that name
BoneAlreadyImported(niBlock) ==
    /\ BranchArmature(niBlock) # None
    /\ niBlock \in DOMAIN dict_names
    /\ dict_names[niBlock] \in ArmatureBoneNames(BranchArmature(niBlock))

\* C28: every bone import_branch has come to had been imported before: the
\* name table holds its name and the armature of the branch has a bone of
\* that name, under every skeleton policy
C28_BoneImportedBefore ==
    /\ reach_run.error = ""
    /\ \A i \in DOMAIN reach_run.done : BoneAlreadyImported(reach_run.done[i])

\* the same for the import of everything and of the skeleton alone
BoneImportedBeforeUnlessGeometryOnly ==
    skeleton # "GEOMETRY_ONLY" => C28_BoneImportedBefore

\* the same for the import of everything
BoneImportedBeforeEverything ==
    skeleton = "EVERYTHING" => C28_BoneImportedBefore

\* the same when no shapes are combined
BoneImportedBeforeUncombined ==
    (skeleton # "GEOMETRY_ONLY" /\ ~combine_shapes) => C28_BoneImportedBefore

====
